---------------------------- MODULE Spec2Model ----------------------------
(***************************************************************************)
(* Model of the sensorswave Go SDK: the event pipeline (client.Track, the  *)
(* batching loop, the batch senders and client.Close) and the A/B core     *)
(* (metadata loader, snapshot pointer, spec evaluator, sticky cache and    *)
(* the client facade).                                                     *)
(*                                                                         *)
(* The source files hold several revisions back to back; the model follows *)
(* the revision the line numbers below refer to: src/client.go 1-425,      *)
(* src/track.go 151-290, src/ab.go, src/http.go.                           *)
(***************************************************************************)
EXTENDS Integers, Sequences, FiniteSets, TLC

(***************************************************************************)
(* Bounds of the model.  The three pipeline limits are program constants   *)
(* (src/unnamed/part_007:16-18) scaled down so that a full channel, a full *)
(* batch and an oversized body are all reached with a handful of events.   *)
(***************************************************************************)
maxEventChanSize == 2
maxBatchSize == 2
maxHTTPBodySize == 2
HTTPConcurrency == 1
HTTPRetry == 1
MaxEvents == 3
MaxSnapshots == 2
MaxImpress == 1

Producers == {"p1", "p2"}
\* The goroutine that calls the A/B methods of the client.
ABCaller == "ab"
Callers == Producers \cup {ABCaller}
\* The events callers pass to Track: valid ones of two marshalled sizes,
\* and one without any user id.
Events == {[event |-> "click", kind |-> "ok", size |-> 1],
           [event |-> "click", kind |-> "ok", size |-> 2],
           [event |-> "click", kind |-> "noids", size |-> 1]}
\* What one POST attempt ends in: status 200, another 2xx status (204), a
\* status outside 2xx (500), or a transport error.
HTTPOutcomes == {"ok200", "ok204", "non200", "err"}

VARIABLES
    quit,        \* client.quit has been closed
    chanBuf,     \* client.msgchan: buffered messages, oldest first
    chanClosed,  \* client.msgchan has been closed
    sendq,       \* goroutines parked in "c.msgchan <- msg", oldest first
    msgQue,      \* the loop's messageQueue
    loopPc,      \* position of client.loop
    loopBatch,   \* batch with which the loop waits in send() for a permit
    sem,         \* permits in client.sem
    wg,          \* counter of client.wg
    batches,     \* every jsonBody for which send() spawned a sender
    senders,     \* one record per spawned sender goroutine
    failLog,     \* batches passed to OnTrackFailHandler, in call order
    hasFailHandler, \* cfg.OnTrackFailHandler != nil
    pc,          \* position of each producer goroutine
    calls,       \* one record per Track call
    closePc,     \* position of client.Close
    heap,        \* every storage object ever installed, by address 1, 2, ...
    storagePtr,  \* ABCore.storagePtr: an address in heap, 0 for nil
    loadPc,      \* "idle" while the loader of ABCore runs, "off" without AB
    loadOutcome, \* what the latest loadRemoteMeta logged
    stickyMode,  \* the configured sticky handler
    stickyData,  \* contents of the sticky handler's store
    evalPc,      \* position of the evaluation API call in progress
    evalReq,     \* its method, user and key
    evalObs,     \* the addresses its atomic loads of storagePtr returned
    caller,     \* the user and the key the calling goroutine evaluates
    last         \* the latest completed evaluation API call

pipeVars == <<quit, chanBuf, chanClosed, sendq, msgQue, loopPc, loopBatch,
              sem, wg, batches, senders, failLog, hasFailHandler, pc,
              calls, closePc>>

abVars == <<heap, storagePtr, loadPc, loadOutcome,
            stickyMode, stickyData, evalPc, evalReq, evalObs, caller,
            last>>

vars == <<pipeVars, abVars>>

(***************************************************************************)
(* client.Track                                                            *)
(***************************************************************************)

\* Event.Normalize and the guard at the top of Track.
TrackValidate(kind) ==
    CASE kind = "noids"  -> "ErrEmptyUserIDs"
      [] kind = "noname" -> "ErrEventNameEmpty"
      [] OTHER           -> "nil"

\* What Track returns after its deferred recover() caught the panic of a
\* send on the closed channel.  The handler assigns the local variable err
\* (declared by "msg, err := json.Marshal(event)"); Track has an unnamed
\* result, so the recovered call returns the zero value of error.
TrackRecovered == "nil"

\* The body of client.Track for caller p: validation and json.Marshal,
\* which touch nothing shared, then "c.msgchan <- msg": the send panics on
\* a closed channel (recovered by the deferred handler), completes when the
\* buffer has room, and parks the goroutine otherwise.
TrackSend(p, e) ==
    LET id   == Len(calls) + 1
        r    == TrackValidate(e.kind)
        msg  == [id |-> id, size |-> e.size]
        call == [event |-> e.event, kind |-> e.kind, size |-> e.size,
                 afterClose |-> (closePc = "returned"),
                 full |-> (Len(chanBuf) >= maxEventChanSize /\ ~chanClosed),
                 status |-> "returned", ret |-> r, queued |-> FALSE]
    IN IF r # "nil"
       THEN /\ calls' = Append(calls, call)
            /\ UNCHANGED <<chanBuf, sendq, pc>>
       ELSE IF chanClosed
       THEN /\ calls' = Append(calls, [call EXCEPT !.ret = TrackRecovered])
            /\ UNCHANGED <<chanBuf, sendq, pc>>
       ELSE IF Len(chanBuf) < maxEventChanSize
       THEN /\ chanBuf' = Append(chanBuf, msg)
            /\ calls' = Append(calls, [call EXCEPT !.queued = TRUE])
            /\ UNCHANGED <<sendq, pc>>
       ELSE /\ sendq' = Append(sendq, [p |-> p, msg |-> msg])
            /\ calls' = Append(calls, [call EXCEPT !.status = "parked"])
            /\ pc' = [pc EXCEPT ![p] = "parked"]
            /\ UNCHANGED chanBuf

\* client.Track called by producer p
Track(p, e) ==
    /\ pc[p] = "idle"
    /\ Len(calls) < MaxEvents
    /\ TrackSend(p, e)
    /\ UNCHANGED <<quit, chanClosed, msgQue, loopPc, loopBatch, sem, wg,
                   batches, senders, failLog, hasFailHandler, closePc>>
    /\ UNCHANGED abVars

(***************************************************************************)
(* messageQueue                                                            *)
(***************************************************************************)

\* messageQueue.flush: NoBody is a nil jsonBody; otherwise msgs are the
\* messages between "[" and "]".
\* pending is set to nil, size and bodySize are left as they are.
NoBody == [isNil |-> TRUE, msgs |-> <<>>]

MQFlush(q) ==
    IF q.size = 0
    THEN [q |-> q, body |-> NoBody]
    ELSE [q |-> [q EXCEPT !.pending = <<>>, !.isNil = TRUE],
          body |-> [isNil |-> FALSE, msgs |-> q.pending]]

\* messageQueue.push that hands the queue over only after a threshold has
\* been passed.
MQPush_AfterThreshold(q, msg) ==
    LET q0 == IF q.isNil
              THEN [pending |-> <<>>, isNil |-> FALSE, size |-> 0, bodySize |-> 0]
              ELSE q
        q1 == [pending |-> Append(q0.pending, msg), isNil |-> FALSE,
               size |-> q0.size + 1, bodySize |-> q0.bodySize + msg.size]
    IN IF q1.size > maxBatchSize \/ q1.bodySize > maxHTTPBodySize
       THEN MQFlush(q1)
       ELSE [q |-> q1, body |-> NoBody]

\* messageQueue.push that puts the message in front of the pending ones.
MQPush_Prepend(q, msg) ==
    LET q0 == IF q.isNil
              THEN [pending |-> <<>>, isNil |-> FALSE, size |-> 0, bodySize |-> 0]
              ELSE q
        q1 == [pending |-> <<msg>> \o q0.pending, isNil |-> FALSE,
               size |-> q0.size + 1, bodySize |-> q0.bodySize + msg.size]
    IN IF q1.size >= maxBatchSize \/ q1.bodySize >= maxHTTPBodySize
       THEN MQFlush(q1)
       ELSE [q |-> q1, body |-> NoBody]

\* messageQueue.push
MQPush(q, msg) ==
    LET q0 == IF q.isNil
              THEN [pending |-> <<>>, isNil |-> FALSE, size |-> 0, bodySize |-> 0]
              ELSE q
        q1 == [pending |-> Append(q0.pending, msg), isNil |-> FALSE,
               size |-> q0.size + 1, bodySize |-> q0.bodySize + msg.size]
    IN IF q1.size >= maxBatchSize \/ q1.bodySize >= maxHTTPBodySize
       THEN MQFlush(q1)
       ELSE [q |-> q1, body |-> NoBody]

(***************************************************************************)
(* client.send, as run by the loop goroutine                               *)
(***************************************************************************)

\* send() without its "<-c.sem": the sender starts without a permit.
SemAcquire_NoPermit(s) == s

\* "<-c.sem": one permit is taken for the sender about to start.
SemAcquire(s) == s - 1

\* send() without its wg.Add(1): the sender is not registered.
SendWgAdd_NoAdd(w) == w

\* wg.Add(1) before the sender goroutine is started.
SendWgAdd(w) == w + 1

\* The sender goroutine send() starts for jsonBody.
NewSender == [pc |-> "do", i |-> 0, code |-> 0, err |-> FALSE]

\* c.push / c.flush followed by c.send(jsonBody): a nil body and a body of
\* len <= 2 ("[]") are dropped; otherwise a permit is taken and the sender
\* is spawned, or the loop waits in "<-c.sem" holding the batch.
LoopSend(body) ==
    IF body.isNil \/ body.msgs = <<>>
    THEN UNCHANGED <<loopBatch, sem, wg, batches, senders>>
    ELSE IF sem > 0
    THEN /\ sem' = SemAcquire(sem)
         /\ wg' = SendWgAdd(wg)
         /\ batches' = Append(batches, body.msgs)
         /\ senders' = Append(senders, NewSender)
         /\ UNCHANGED loopBatch
    ELSE /\ loopBatch' = body
         /\ UNCHANGED <<sem, wg, batches, senders>>

\* The loop, parked in "<-c.sem", gets a permit and spawns the sender.
LoopAcquire ==
    /\ ~loopBatch.isNil
    /\ sem > 0
    /\ sem' = SemAcquire(sem)
    /\ wg' = SendWgAdd(wg)
    /\ batches' = Append(batches, loopBatch.msgs)
    /\ senders' = Append(senders, NewSender)
    /\ loopBatch' = NoBody
    /\ UNCHANGED <<quit, chanBuf, chanClosed, sendq, msgQue, loopPc, failLog,
                   hasFailHandler, pc,  calls, closePc>>
    /\ UNCHANGED abVars

(***************************************************************************)
(* client.loop                                                             *)
(***************************************************************************)

\* A receive from msgchan: the head of the buffer is taken, and the oldest
\* parked sender, if any, puts its message in the buffer and returns nil.
ChanRecv ==
    IF sendq = <<>>
    THEN /\ chanBuf' = Tail(chanBuf)
         /\ UNCHANGED <<sendq, pc, calls>>
    ELSE LET w == Head(sendq)
         IN /\ chanBuf' = Append(Tail(chanBuf), w.msg)
            /\ sendq' = Tail(sendq)
            /\ pc' = [pc EXCEPT ![w.p] = "idle"]
            /\ calls' = [calls EXCEPT ![w.msg.id].status = "returned",
                                      ![w.msg.id].ret = "nil",
                                      ![w.msg.id].queued = TRUE]

\* case msg := <-c.msgchan: c.push(&msgQue, msg)
LoopRecvMsg ==
    /\ loopPc = "select"
    /\ loopBatch.isNil
    /\ chanBuf # <<>>
    /\ ChanRecv
    /\ LET r == MQPush(msgQue, Head(chanBuf))
       IN /\ msgQue' = r.q
          /\ LoopSend(r.body)
    /\ UNCHANGED <<quit, chanClosed, loopPc, failLog, hasFailHandler, 
                   closePc>>
    /\ UNCHANGED abVars

\* case <-tick.C: c.flush(&msgQue)
LoopTick ==
    /\ loopPc = "select"
    /\ loopBatch.isNil
    /\ LET r == MQFlush(msgQue)
       IN /\ msgQue' = r.q
          /\ LoopSend(r.body)
    /\ UNCHANGED <<quit, chanBuf, chanClosed, sendq, loopPc, failLog,
                   hasFailHandler, pc,  calls, closePc>>
    /\ UNCHANGED abVars

\* case <-c.quit: close(c.msgchan).  Every goroutine parked in a send on
\* the channel panics; Track recovers it.
LoopQuit ==
    /\ loopPc = "select"
    /\ loopBatch.isNil
    /\ quit
    /\ chanClosed' = TRUE
    /\ sendq' = <<>>
    /\ pc' = [p \in Callers |-> IF pc[p] = "parked" THEN "idle" ELSE pc[p]]
    /\ calls' = [i \in DOMAIN calls |->
                   IF \E k \in DOMAIN sendq : sendq[k].msg.id = i
                   THEN [calls[i] EXCEPT !.status = "returned",
                                         !.ret = TrackRecovered]
                   ELSE calls[i]]
    /\ loopPc' = "drain"
    /\ UNCHANGED <<quit, chanBuf, msgQue, loopBatch, sem, wg, batches,
                   senders, failLog, hasFailHandler,  closePc>>
    /\ UNCHANGED abVars

\* for msg := range c.msgchan { c.push(&msgQue, msg) }
LoopDrain ==
    /\ loopPc = "drain"
    /\ loopBatch.isNil
    /\ chanBuf # <<>>
    /\ chanBuf' = Tail(chanBuf)
    /\ LET r == MQPush(msgQue, Head(chanBuf))
       IN /\ msgQue' = r.q
          /\ LoopSend(r.body)
    /\ UNCHANGED <<quit, chanClosed, sendq, loopPc, failLog, hasFailHandler,
                   pc,  calls, closePc>>
    /\ UNCHANGED abVars

\* The range ends on the closed, empty channel: c.flush(&msgQue); return
LoopDrainEnd ==
    /\ loopPc = "drain"
    /\ loopBatch.isNil
    /\ chanBuf = <<>>
    /\ LET r == MQFlush(msgQue)
       IN /\ msgQue' = r.q
          /\ LoopSend(r.body)
    /\ loopPc' = "final"
    /\ UNCHANGED <<quit, chanBuf, chanClosed, sendq, failLog, hasFailHandler,
                   pc,  calls, closePc>>
    /\ UNCHANGED abVars

\* defer c.wg.Done() of the loop
LoopExit ==
    /\ loopPc = "final"
    /\ loopBatch.isNil
    /\ loopPc' = "exited"
    /\ wg' = wg - 1
    /\ UNCHANGED <<quit, chanBuf, chanClosed, sendq, msgQue, loopBatch, sem,
                   batches, senders, failLog, hasFailHandler, pc,  calls,
                   closePc>>
    /\ UNCHANGED abVars

(***************************************************************************)
(* The sender goroutine of client.send and httpClient.Do                   *)
(***************************************************************************)

\* The httpCode and the error of one attempt (doWithTimeout).
OutcomeCode(outcome) ==
    CASE outcome = "ok200" -> 200
      [] outcome = "ok204" -> 204
      [] outcome = "non200" -> 500
      [] outcome = "readerr200" -> 200
      [] OTHER -> 0
OutcomeErr(outcome) == outcome \in {"err", "readerr200"}

\* The loop of httpClient.Do without the "ctx.Err() != nil" test.
DoStops_IgnoreCtx(i, code, err, ctxErr) ==
    \/ ~err /\ code = 200
    \/ i + 1 > HTTPRetry

\* The loop of httpClient.Do after attempt i + 1 returned code and err,
\* with ctxErr the value of "ctx.Err() != nil": the loop is left after a
\* failed attempt when the parent context has ended, after status 200
\* without error, and when i reaches opts.Retry.
DoStops(i, code, err, ctxErr) ==
    \/ err /\ ctxErr
    \/ ~err /\ code = 200
    \/ i + 1 > HTTPRetry

\* One iteration of the loop of httpClient.Do, called with
\* context.Background(): ctx.Err() is always nil, so an attempt that fails
\* is followed by the next one until i > opts.Retry.
SenderAttempt(b, outcome) ==
    /\ b \in DOMAIN senders
    /\ senders[b].pc = "do"
    /\ LET s    == senders[b]
           code == OutcomeCode(outcome)
           err  == OutcomeErr(outcome)
           stop == DoStops(s.i, code, err, FALSE)
       IN senders' = [senders EXCEPT ![b] =
              [pc |-> IF stop THEN "after" ELSE "do",
               i |-> s.i + 1, code |-> code, err |-> err]]
    /\ UNCHANGED <<quit, chanBuf, chanClosed, sendq, msgQue, loopPc,
                   loopBatch, sem, wg, batches, failLog, hasFailHandler, pc,  calls, closePc>>
    /\ UNCHANGED abVars

\* The sender goroutine without the deferred c.wg.Done().
SenderFinish_NoDone(b) ==
    /\ b \in DOMAIN senders
    /\ senders[b].pc = "after"
    /\ failLog' = IF (senders[b].err \/ senders[b].code # 200) /\ hasFailHandler
                  THEN Append(failLog, b)
                  ELSE failLog
    /\ senders' = [senders EXCEPT ![b].pc = "done"]
    /\ sem' = sem + 1
    /\ UNCHANGED <<quit, chanBuf, chanClosed, sendq, msgQue, loopPc,
                   loopBatch, wg, batches, hasFailHandler, pc,  calls, closePc>>
    /\ UNCHANGED abVars

\* After Do: the failure callback, then the deferred permit release and
\* wg.Done().
SenderFinish(b) ==
    /\ b \in DOMAIN senders
    /\ senders[b].pc = "after"
    /\ failLog' = IF (senders[b].err \/ senders[b].code # 200) /\ hasFailHandler
                  THEN Append(failLog, b)
                  ELSE failLog
    /\ senders' = [senders EXCEPT ![b].pc = "done"]
    /\ sem' = sem + 1
    /\ wg' = wg - 1
    /\ UNCHANGED <<quit, chanBuf, chanClosed, sendq, msgQue, loopPc,
                   loopBatch, batches, hasFailHandler, pc,  calls, closePc>>
    /\ UNCHANGED abVars

(***************************************************************************)
(* client.Close                                                            *)
(***************************************************************************)

\* close(c.quit); c.abCore.Stop() when configured
CloseCall ==
    /\ closePc = "idle"
    /\ quit' = TRUE
    /\ closePc' = "wait"
    /\ UNCHANGED <<chanBuf, chanClosed, sendq, msgQue, loopPc, loopBatch, sem,
                   wg, batches, senders, failLog, hasFailHandler, pc, 
                   calls>>
    /\ UNCHANGED abVars

\* c.wg.Wait() returns
CloseReturn ==
    /\ closePc = "wait"
    /\ wg = 0
    /\ closePc' = "returned"
    /\ UNCHANGED <<quit, chanBuf, chanClosed, sendq, msgQue, loopPc,
                   loopBatch, sem, wg, batches, senders, failLog,
                   hasFailHandler, pc,  calls>>
    /\ UNCHANGED abVars

(***************************************************************************)
(* A/B core: values, users, specs                                          *)
(***************************************************************************)

\* A nil *string, nil map or nil interface.
Null == "<null>"
\* A nil error.
NoErr == "nil"

ABTypGate == 1
ABTypConfig == 2
ABTypExp == 3
VariantIDPass == "pass"
VariantIDFail == "fail"
maxRecursionDepth == 10

\* Go values of type any, as they occur in conditions and user properties:
\* t is the dynamic type, s the text of the value, n its number, l the
\* elements of a list.
NilV == [t |-> "nil", s |-> "", n |-> 0, l |-> <<>>]
StrV(x) == [t |-> "str", s |-> x, n |-> 0, l |-> <<>>]
IntV(k, txt) == [t |-> "int", s |-> txt, n |-> k, l |-> <<>>]
BoolV(b) == [t |-> "bool", s |-> IF b THEN "true" ELSE "false", n |-> 0, l |-> <<>>]
ListV(q) == [t |-> "list", s |-> "", n |-> 0, l |-> q]

\* strings.ToLower on the names that occur in the metadata.
ToLower(x) ==
    CASE x = "COMMON" -> "common"
      [] x = "FFUSER" -> "ffuser"
      [] x = "PROPS" -> "props"
      [] x = "TARGET" -> "target"
      [] x = "PUBLIC" -> "public"
      [] x = "LOGIN_ID" -> "login_id"
      [] x = "ANON_ID" -> "anon_id"
      [] x = "IS_TRUE" -> "is_true"
      [] x = "GATE_PASS" -> "gate_pass"
      [] x = "GATE_FAIL" -> "gate_fail"
      [] x = "EQ" -> "eq"
      [] OTHER -> x

\* strings.EqualFold
EqualFold(x, y) == ToLower(x) = ToLower(y)

\* The empty ABResult.
EmptyResult ==
    [ID |-> 0, Key |-> "", Typ |-> 0, VariantID |-> Null,
     VariantParamValue |-> Null, DisableImpress |-> FALSE]

\* CheckFeatureGate answering true for every variant.
CheckFeatureGateOf_AnyVariant(r) == r.VariantID # Null

\* ABResult.CheckFeatureGate
CheckFeatureGateOf(r) ==
    IF r.VariantID = Null THEN FALSE ELSE r.VariantID = VariantIDPass

\* spec.VariantValues[vid]: a missing key and a nil map give a nil payload.
VariantValue(spec, vid) ==
    IF vid \in DOMAIN spec.VariantValues THEN spec.VariantValues[vid] ELSE Null

\* fmt.Sprintf("%v", v)
SprintfV(v) == IF v.t = "nil" THEN "<nil>" ELSE v.s

\* user.ABUserProperties[name]
PropOf(user, name) ==
    IF name \in DOMAIN user.ABUserProperties
    THEN user.ABUserProperties[name]
    ELSE NilV

\* ABCore.getEvalID
getEvalID(user, spec) ==
    IF EqualFold(spec.SubjectID, "anon_id") THEN user.AnonID
    ELSE IF EqualFold(spec.SubjectID, "login_id") THEN user.LoginID
    ELSE SprintfV(PropOf(user, spec.SubjectID))

\* hashUint64(key, salt): the first 8 bytes of SHA-256 of "key.salt".  The
\* digest is represented by a fixed table of the identifiers and salts of
\* the model; the evaluator only uses it as a deterministic function.
KeyCode(key) ==
    CASE key = "u1" -> 1234
      [] key = "u2" -> 7531
      [] key = "a1" -> 6100
      [] key = "a2" -> 8800
      [] key = "pro" -> 4000
      [] OTHER -> 9999
SaltCode(salt) ==
    CASE salt = "s1" -> 0
      [] salt = "s2" -> 5000
      [] OTHER -> 250
hashUint64(key, salt) == KeyCode(key) + SaltCode(salt)

(***************************************************************************)
(* Sticky handler (IABStickyHandler) over an in-memory store                *)
(***************************************************************************)

\* What GetStickyResult returns for a key that was never written: "".
EmptyVal == [kind |-> "", v |-> Null]

\* A value of the store that is not empty and is not the JSON of an
\* abResultCache.
BadVal == [kind |-> "text", v |-> Null]

\* json.Marshal(abResultCache{VariantID: vid}) = {"v":"<vid>"}
MarshalCache(vid) == [kind |-> "obj", v |-> vid]

\* json.Unmarshal([]byte(cacheResult), &cache)
UnmarshalCache(val) ==
    IF val.kind = "obj" THEN [ok |-> TRUE, VariantID |-> val.v]
    ELSE [ok |-> FALSE, VariantID |-> Null]

\* fmt.Sprintf("%d-%s", spec.ID, evalID)
StickyKey(spec, evalID) == <<spec.ID, evalID>>

StGet(st, k) ==
    IF \E e \in st : e.k = k THEN (CHOOSE e \in st : e.k = k).val ELSE EmptyVal

StSet(st, k, val) == {e \in st : e.k # k} \cup {[k |-> k, val |-> val]}

(***************************************************************************)
(* Snapshot access                                                         *)
(***************************************************************************)

\* The k-th atomic load of storagePtr made by a call whose loads so far
\* returned obs.
ViewAt(obs, k) == obs[IF k <= Len(obs) THEN k ELSE Len(obs)]

\* ABCore.getABSpec: one atomic load of storagePtr, then the map lookup.
\* c.n counts the loads the call has made.
getABSpec(obs, key, c) ==
    LET a == ViewAt(obs, c.n + 1)
        found == a # 0 /\ key \in DOMAIN heap[a].ABSpecs
    IN [found |-> found,
        spec |-> IF found THEN heap[a].ABSpecs[key] ELSE Null,
        c |-> [c EXCEPT !.n = c.n + 1]]

(***************************************************************************)
(* Condition evaluator                                                     *)
(***************************************************************************)

\* getNumericValue: integers and floats, and strings that parse as a float.
ParseFloat(x) ==
    CASE x = "10" -> [ok |-> TRUE, n |-> 10]
      [] x = "20" -> [ok |-> TRUE, n |-> 20]
      [] OTHER -> [ok |-> FALSE, n |-> 0]
getNumericValue(a) ==
    CASE a.t = "int" -> [ok |-> TRUE, n |-> a.n]
      [] a.t = "str" -> ParseFloat(a.s)
      [] OTHER -> [ok |-> FALSE, n |-> 0]

\* ABCore.evalCondNumberMatch with compareNumbers
evalCondNumberMatch(op, left, right) ==
    LET a == getNumericValue(left)
        b == getNumericValue(right)
    IN IF ~a.ok \/ ~b.ok THEN FALSE
       ELSE CASE EqualFold(op, "gt") -> a.n > b.n
              [] EqualFold(op, "gte") -> a.n >= b.n
              [] EqualFold(op, "lt") -> a.n < b.n
              [] EqualFold(op, "lte") -> a.n <= b.n
              [] OTHER -> FALSE

\* deepEqual
deepEqual(left, right) ==
    IF right.t = "nil"
    THEN left.t = "nil" \/ (left.t = "str" /\ left.s = "")
    ELSE left = right

\* ABCore.evalCondBasicMatch
evalCondBasicMatch(op, left, right) ==
    CASE EqualFold(op, "is_null") -> left.t = "nil"
      [] EqualFold(op, "is_not_null") -> left.t # "nil"
      [] EqualFold(op, "is_true") -> left.t = "bool" /\ left.s = "true"
      [] EqualFold(op, "is_false") -> left.t = "bool" /\ left.s = "false"
      [] EqualFold(op, "eq") -> deepEqual(left, right)
      [] EqualFold(op, "neq") -> ~deepEqual(left, right)
      [] OTHER -> FALSE

\* convertToString for nil, strings, integers and booleans.
convertToString(a) == IF a.t = "nil" THEN "" ELSE a.s

\* arrayAny with compareStrings: the right side must be a list, a nil left
\* side matches nothing.
arrayAny(left, right, fold) ==
    /\ right.t = "list"
    /\ left.t # "nil"
    /\ \E k \in DOMAIN right.l :
          IF fold THEN EqualFold(convertToString(left), right.l[k])
          ELSE convertToString(left) = right.l[k]

\* ABCore.evalCondArrayMatch
evalCondArrayMatch(op, left, right) ==
    CASE EqualFold(op, "any_of_case_insensitive") -> arrayAny(left, right, TRUE)
      [] EqualFold(op, "none_of_case_insensitive") -> ~arrayAny(left, right, TRUE)
      [] EqualFold(op, "any_of_case_sensitive") -> arrayAny(left, right, FALSE)
      [] EqualFold(op, "none_of_case_sensitive") -> ~arrayAny(left, right, FALSE)
      [] OTHER -> FALSE

\* BucketBitmap.LoadNetworkByteOrderString and GetBit for the bitmaps of the
\* model: "lowhalf" has bits 0..499 set, "none" has no bit set, and "zz" is
\* not a hex string.
BitmapLoadFails(hex) == hex = "zz"
BitmapGetBit(hex, pos) ==
    IF hex = "lowhalf" /\ pos >= 0 /\ pos < 500 THEN 1 ELSE 0

\* The operators evalCondMatch sends to each matcher.
IsNumberOp(op) == ToLower(op) \in {"gt", "gte", "lt", "lte"}
\* strings.HasPrefix(strings.ToLower(op), "version_")
HasVersionPrefix(op) ==
    ToLower(op) \in {"version_gt", "version_gte", "version_lt", "version_lte",
                     "version_eq", "version_neq", "version_like"}
\* strings.Contains(strings.ToLower(op), "_of_")
ContainsOf(op) ==
    ToLower(op) \in {"any_of_case_insensitive", "none_of_case_insensitive",
                     "any_of_case_sensitive", "none_of_case_sensitive",
                     "one_of_these"}
IsBasicOp(op) ==
    ToLower(op) \in {"is_null", "is_not_null", "is_true", "is_false", "eq", "neq"}
IsTimeOp(op) == ToLower(op) \in {"before", "after"}

\* Results of the evaluator's functions: ok is the boolean result (pass or
\* handled), err the error, res the ABResult, c the loads made and the
\* sticky store.
Ret(ok, err, res, c) == [ok |-> ok, err |-> err, res |-> res, c |-> c]

RECURSIVE evalAB(_, _, _, _, _)

\* evalCondGateMatch without the "if invert" branch.
GateMatchResult_NoInvert(r, invert) ==
    IF r.err # NoErr THEN Ret(FALSE, r.err, EmptyResult, r.c)
    ELSE Ret(CheckFeatureGateOf(r.res), NoErr, EmptyResult, r.c)

\* The end of evalCondGateMatch, with r what evalAB returned for the
\* dependent spec.
GateMatchResult(r, invert) ==
    IF r.err # NoErr THEN Ret(FALSE, r.err, EmptyResult, r.c)
    ELSE Ret(IF invert THEN ~CheckFeatureGateOf(r.res)
             ELSE CheckFeatureGateOf(r.res),
             NoErr, EmptyResult, r.c)

\* ABCore.evalCondGateMatch
evalCondGateMatch(obs, user, field, index, invert, c) ==
    LET g == getABSpec(obs, field, c)
    IN IF ~g.found THEN Ret(FALSE, NoErr, EmptyResult, g.c)
       ELSE GateMatchResult(evalAB(obs, user, g.spec, index, g.c), invert)

\* splitVersionString(strings.Split(x, "-")[0]) for the version strings of
\* the model; ok is FALSE for an empty or non-numeric version.
VersionParts(x) ==
    CASE x = "1.2" -> [ok |-> TRUE, v |-> <<1, 2>>]
      [] x = "1.2.0-beta" -> [ok |-> TRUE, v |-> <<1, 2, 0>>]
      [] x = "1.10" -> [ok |-> TRUE, v |-> <<1, 10>>]
      [] OTHER -> [ok |-> FALSE, v |-> <<>>]

\* compareVersionsSlice, from index i on
RECURSIVE compareVersionsSlice(_, _, _)
compareVersionsSlice(v1, v2, i) ==
    IF i > Len(v1) /\ i > Len(v2) THEN 0
    ELSE LET n1 == IF i > Len(v1) THEN 0 ELSE v1[i]
             n2 == IF i > Len(v2) THEN 0 ELSE v2[i]
         IN IF n1 < n2 THEN 0 - 1
            ELSE IF n1 > n2 THEN 1
            ELSE compareVersionsSlice(v1, v2, i + 1)

\* ABCore.evalCondVersionMatch with compareVersions
evalCondVersionMatch(op, left, right) ==
    LET a == VersionParts(left.s)
        b == VersionParts(right.s)
        cmp == compareVersionsSlice(a.v, b.v, 1)
    IN IF left.t # "str" \/ right.t # "str" \/ ~a.ok \/ ~b.ok THEN FALSE
       ELSE CASE EqualFold(op, "version_gt") -> cmp > 0
              [] EqualFold(op, "version_gte") -> cmp >= 0
              [] EqualFold(op, "version_lt") -> cmp < 0
              [] EqualFold(op, "version_lte") -> cmp <= 0
              [] EqualFold(op, "version_eq") -> cmp = 0
              [] EqualFold(op, "version_neq") -> cmp # 0
              [] OTHER -> FALSE

\* getTime as seconds since the epoch: integers are epochs, strings that
\* parse as an integer are epochs, anything else is the zero time.Time
\* (year 1), which is before every epoch.  The epochs of the model are far
\* from the millisecond range.
ZeroTime == 0 - 2000000000
getTime(a) ==
    CASE a.t = "int" -> a.n
      [] a.t = "str" -> IF ParseFloat(a.s).ok THEN ParseFloat(a.s).n ELSE ZeroTime
      [] OTHER -> ZeroTime

\* ABCore.evalCondTimeMatch
evalCondTimeMatch(op, left, right) ==
    CASE EqualFold(op, "before") -> getTime(left) < getTime(right)
      [] EqualFold(op, "after") -> getTime(left) > getTime(right)
      [] OTHER -> FALSE

\* ABCore.evalCondMatch: the first case of the switch that matches decides.
evalCondMatch(obs, user, cond, left, right, evalID, index, c) ==
    LET op == cond.Opt
    IN IF IsNumberOp(op)
       THEN Ret(evalCondNumberMatch(op, left, right), NoErr, EmptyResult, c)
       ELSE IF HasVersionPrefix(op)
       THEN Ret(evalCondVersionMatch(op, left, right), NoErr, EmptyResult, c)
       ELSE IF ContainsOf(op)
       THEN Ret(evalCondArrayMatch(op, left, right), NoErr, EmptyResult, c)
       ELSE IF IsBasicOp(op)
       THEN Ret(evalCondBasicMatch(op, left, right), NoErr, EmptyResult, c)
       ELSE IF IsTimeOp(op)
       THEN Ret(evalCondTimeMatch(op, left, right), NoErr, EmptyResult, c)
       ELSE IF EqualFold(op, "bucket_set")
       THEN IF right.t = "str"
            THEN IF BitmapLoadFails(right.s)
                 THEN Ret(FALSE, "load bucket_set failed", EmptyResult, c)
                 ELSE Ret(BitmapGetBit(right.s,
                              hashUint64(evalID, cond.Field) % 1000) = 1,
                          NoErr, EmptyResult, c)
            ELSE Ret(FALSE, "unknown bucket_set type", EmptyResult, c)
       ELSE IF EqualFold(op, "gate_pass") \/ EqualFold(op, "gate_fail")
       THEN evalCondGateMatch(obs, user, cond.Field, index,
                              ~EqualFold(op, "gate_pass"), c)
       ELSE Ret(FALSE, "unknown operator", EmptyResult, c)

\* ABCore.evalCond
evalCond(obs, user, cond, evalID, index, c) ==
    IF EqualFold(cond.FieldClass, "common")
    THEN IF EqualFold(cond.Field, "public")
         THEN Ret(TRUE, NoErr, EmptyResult, c)
         ELSE Ret(FALSE, "unknown common field", EmptyResult, c)
    ELSE LET left ==
               CASE EqualFold(cond.FieldClass, "ffuser") ->
                      IF EqualFold(cond.Field, "login_id") /\ user.LoginID # ""
                      THEN StrV(user.LoginID)
                      ELSE IF EqualFold(cond.Field, "anon_id") /\ user.AnonID # ""
                      THEN StrV(user.AnonID)
                      ELSE NilV
                 [] EqualFold(cond.FieldClass, "props") -> PropOf(user, cond.Field)
                 [] EqualFold(cond.FieldClass, "target") -> NilV
                 [] OTHER -> StrV(cond.Field)
         IN evalCondMatch(obs, user, cond, left, cond.Value, evalID, index, c)

\* The loop over rule.Conditions in evalRule, from condition i on, with r
\* what the previous condition returned: an error or a condition that does
\* not hold ends the loop.
RECURSIVE evalConds(_, _, _, _, _, _, _)
evalConds(obs, user, conds, i, evalID, index, r) ==
    IF r.err # NoErr THEN Ret(FALSE, r.err, EmptyResult, r.c)
    ELSE IF ~r.ok THEN Ret(FALSE, NoErr, EmptyResult, r.c)
    ELSE IF i > Len(conds) THEN Ret(TRUE, NoErr, EmptyResult, r.c)
    ELSE evalConds(obs, user, conds, i + 1, evalID, index,
                   evalCond(obs, user, conds[i], evalID, index, r.c))

\* The rollout check of evalRule, with r what the conditions returned.
RuleRollout(rule, evalID, r) ==
    IF r.err # NoErr \/ ~r.ok THEN r
    ELSE IF rule.Rollout = 100 THEN Ret(TRUE, NoErr, EmptyResult, r.c)
    ELSE Ret(hashUint64(evalID, rule.Salt) % 10000 < rule.Rollout * 100,
             NoErr, EmptyResult, r.c)

\* evalRule with the "rule.Rollout == 0" test after the loop over the
\* conditions.
evalRule_CondsFirst(obs, user, rule, evalID, index, c) ==
    RuleRollout(rule, evalID,
                evalConds(obs, user, rule.Conditions, 1, evalID, index,
                          Ret(TRUE, NoErr, EmptyResult, c)))

\* ABCore.evalRule
evalRule(obs, user, rule, evalID, index, c) ==
    IF rule.Rollout = 0 THEN Ret(FALSE, NoErr, EmptyResult, c)
    ELSE RuleRollout(rule, evalID,
                     evalConds(obs, user, rule.Conditions, 1, evalID, index,
                               Ret(TRUE, NoErr, EmptyResult, c)))

(***************************************************************************)
(* Spec evaluator                                                          *)
(***************************************************************************)

\* result.VariantID = rule.Override with the payload of that variant.
WithVariant(spec, res, vid) ==
    [res EXCEPT !.VariantID = vid, !.VariantParamValue = VariantValue(spec, vid)]

RECURSIVE evalABOverrides(_, _, _, _, _, _, _, _)

\* The body of the loop of evalABOverrides for rule i, with r what evalRule
\* returned for it: the first rule that passes and has an override decides.
OverrideRule(obs, user, spec, evalID, index, res, i, r) ==
    IF r.err # NoErr THEN Ret(FALSE, r.err, res, r.c)
    ELSE IF r.ok /\ spec.Rules.OVERRIDE[i].Override # Null
    THEN Ret(TRUE, NoErr,
             WithVariant(spec, res, spec.Rules.OVERRIDE[i].Override), r.c)
    ELSE evalABOverrides(obs, user, spec, evalID, index, res, i + 1, r.c)

\* ABCore.evalABOverrides, from rule i on.
evalABOverrides(obs, user, spec, evalID, index, res, i, c) ==
    IF i > Len(spec.Rules.OVERRIDE) THEN Ret(FALSE, NoErr, res, c)
    ELSE OverrideRule(obs, user, spec, evalID, index, res, i,
                      evalRule(obs, user, spec.Rules.OVERRIDE[i], evalID,
                               index, c))

\* What evalABTraffic stores for the override of a traffic rule that did
\* not pass: the variant id, and no payload.
TrafficOverride(spec, res, vid) == [res EXCEPT !.VariantID = vid]

RECURSIVE evalABTraffic(_, _, _, _, _, _, _, _)

\* The body of the loop of evalABTraffic for rule i, with r what evalRule
\* returned for it: the first rule that does not pass decides.
TrafficRule(obs, user, spec, evalID, index, res, i, r) ==
    IF r.err # NoErr THEN Ret(FALSE, r.err, res, r.c)
    ELSE IF ~r.ok
    THEN Ret(TRUE, NoErr,
             IF spec.Rules.TRAFFIC[i].Override # Null
             THEN TrafficOverride(spec, res, spec.Rules.TRAFFIC[i].Override)
             ELSE res,
             r.c)
    ELSE evalABTraffic(obs, user, spec, evalID, index, res, i + 1, r.c)

\* ABCore.evalABTraffic, from rule i on.
evalABTraffic(obs, user, spec, evalID, index, res, i, c) ==
    IF i > Len(spec.Rules.TRAFFIC) THEN Ret(FALSE, NoErr, res, c)
    ELSE TrafficRule(obs, user, spec, evalID, index, res, i,
                     evalRule(obs, user, spec.Rules.TRAFFIC[i], evalID,
                              index, c))

RECURSIVE evalABGates(_, _, _, _, _, _, _, _)

\* The body of the loop of evalABGates for rule i, with r what evalRule
\* returned for it: the first rule that passes decides.
GateRule(obs, user, spec, evalID, index, res, i, r) ==
    IF r.err # NoErr THEN Ret(FALSE, r.err, res, r.c)
    ELSE IF r.ok
    THEN Ret(TRUE, NoErr,
             IF spec.Rules.GATE[i].Override # Null
             THEN WithVariant(spec, res, spec.Rules.GATE[i].Override)
             ELSE res,
             r.c)
    ELSE evalABGates(obs, user, spec, evalID, index, res, i + 1, r.c)

\* ABCore.evalABGates, from rule i on.
evalABGates(obs, user, spec, evalID, index, res, i, c) ==
    IF i > Len(spec.Rules.GATE) THEN Ret(FALSE, NoErr, res, c)
    ELSE GateRule(obs, user, spec, evalID, index, res, i,
                  evalRule(obs, user, spec.Rules.GATE[i], evalID, index, c))

RECURSIVE evalABExperiments(_, _, _, _, _, _, _, _)

\* The body of the loop of evalABExperiments for rule i, with r what
\* evalRule returned for it.
GroupRule(obs, user, spec, evalID, index, res, i, r) ==
    IF r.err # NoErr THEN Ret(FALSE, r.err, res, r.c)
    ELSE IF r.ok
    THEN Ret(TRUE, NoErr,
             IF spec.Rules.GROUP[i].Override # Null
             THEN WithVariant(spec, res, spec.Rules.GROUP[i].Override)
             ELSE res,
             r.c)
    ELSE evalABExperiments(obs, user, spec, evalID, index, res, i + 1, r.c)

\* ABCore.evalABExperiments, from rule i on.
evalABExperiments(obs, user, spec, evalID, index, res, i, c) ==
    IF i > Len(spec.Rules.GROUP) THEN Ret(FALSE, NoErr, res, c)
    ELSE GroupRule(obs, user, spec, evalID, index, res, i,
                   evalRule(obs, user, spec.Rules.GROUP[i], evalID, index, c))

\* The deferred function of evalABRules: a Gate whose VariantID is still
\* nil gets "pass" or "fail".
GateNormalize(spec, res, pass) ==
    IF spec.Typ = ABTypGate /\ res.VariantID = Null
    THEN [res EXCEPT !.VariantID = IF pass THEN VariantIDPass ELSE VariantIDFail]
    ELSE res

\* evalABRules, step 4: g is what evalABGates returned and e what
\* evalABExperiments returned.
RulesAfterExperiments(spec, g, e) ==
    Ret(g.ok, e.err, GateNormalize(spec, e.res, g.ok), e.c)

\* evalABRules going on to the GROUP class for a spec of any type.
RulesAfterGates_AnyType(obs, user, spec, evalID, index, g) ==
    IF g.err # NoErr
    THEN Ret(FALSE, g.err, GateNormalize(spec, g.res, FALSE), g.c)
    ELSE IF ~g.ok \/ g.res.VariantID # Null
    THEN Ret(g.ok, NoErr, GateNormalize(spec, g.res, g.ok), g.c)
    ELSE RulesAfterExperiments(spec, g,
             evalABExperiments(obs, user, spec, evalID, index, g.res, 1, g.c))

\* evalABRules after step 3, with g what evalABGates returned.
RulesAfterGates(obs, user, spec, evalID, index, g) ==
    IF g.err # NoErr
    THEN Ret(FALSE, g.err, GateNormalize(spec, g.res, FALSE), g.c)
    ELSE IF spec.Typ # ABTypExp \/ ~g.ok \/ g.res.VariantID # Null
    THEN Ret(g.ok, NoErr, GateNormalize(spec, g.res, g.ok), g.c)
    ELSE RulesAfterExperiments(spec, g,
             evalABExperiments(obs, user, spec, evalID, index, g.res, 1, g.c))

\* evalABRules going on to the GATE class after a TRAFFIC rule decided.
RulesAfterTraffic_NoReturn(obs, user, spec, evalID, index, t) ==
    IF t.err # NoErr
    THEN Ret(FALSE, t.err, GateNormalize(spec, t.res, FALSE), t.c)
    ELSE RulesAfterGates(obs, user, spec, evalID, index,
             evalABGates(obs, user, spec, evalID, index, t.res, 1, t.c))

\* evalABRules after step 2, with t what evalABTraffic returned.
RulesAfterTraffic(obs, user, spec, evalID, index, t) ==
    IF t.err # NoErr \/ t.ok
    THEN Ret(FALSE, t.err, GateNormalize(spec, t.res, FALSE), t.c)
    ELSE RulesAfterGates(obs, user, spec, evalID, index,
             evalABGates(obs, user, spec, evalID, index, t.res, 1, t.c))

\* evalABRules going on to the TRAFFIC class after an OVERRIDE rule decided.
RulesAfterOverrides_NoReturn(obs, user, spec, evalID, index, o) ==
    IF o.err # NoErr
    THEN Ret(FALSE, o.err, GateNormalize(spec, o.res, FALSE), o.c)
    ELSE RulesAfterTraffic(obs, user, spec, evalID, index,
             evalABTraffic(obs, user, spec, evalID, index, o.res, 1, o.c))

\* evalABRules after step 1, with o what evalABOverrides returned.
RulesAfterOverrides(obs, user, spec, evalID, index, o) ==
    IF o.err # NoErr \/ o.ok
    THEN Ret(FALSE, o.err, GateNormalize(spec, o.res, FALSE), o.c)
    ELSE RulesAfterTraffic(obs, user, spec, evalID, index,
             evalABTraffic(obs, user, spec, evalID, index, o.res, 1, o.c))

\* ABCore.evalABRules
evalABRules(obs, user, spec, evalID, index, res, c) ==
    RulesAfterOverrides(obs, user, spec, evalID, index,
        evalABOverrides(obs, user, spec, evalID, index, res, 1, c))

\* IABStickyHandler.GetStickyResult of the configured handler
GetStickyResult(st, k) ==
    IF stickyMode = "getfail" THEN [err |-> "sticky read failed", val |-> EmptyVal]
    ELSE [err |-> NoErr, val |-> StGet(st, k)]

\* IABStickyHandler.SetStickyResult of the configured handler
SetStickyResult(st, k, val) ==
    IF stickyMode = "setfail" THEN [err |-> "sticky write failed", st |-> st]
    ELSE [err |-> NoErr, st |-> StSet(st, k, val)]

\* The ABResult with the identity of the spec: result.ID, Key, Typ and
\* DisableImpress.
Seeded(spec) ==
    [EmptyResult EXCEPT !.ID = spec.ID, !.Key = spec.Key, !.Typ = spec.Typ,
                        !.DisableImpress = spec.DisableImpress]

\* The result evalABSticky builds from a cache entry that decoded.
StickyHit(spec, cache) ==
    IF cache.VariantID # Null
    THEN WithVariant(spec, Seeded(spec), cache.VariantID)
    ELSE Seeded(spec)

\* evalABSticky without its "return true" on a cache entry that decoded.
evalABSticky_NoReturn(spec, evalID, c) ==
    IF stickyMode = "none" THEN Ret(FALSE, "ErrABWithoutSticky", EmptyResult, c)
    ELSE LET g == GetStickyResult(c.st, StickyKey(spec, evalID))
         IN IF g.err # NoErr THEN Ret(FALSE, g.err, EmptyResult, c)
            ELSE Ret(FALSE, NoErr, EmptyResult, c)

\* ABCore.evalABSticky: ok is "handled".
evalABSticky(spec, evalID, c) ==
    IF stickyMode = "none" THEN Ret(FALSE, "ErrABWithoutSticky", EmptyResult, c)
    ELSE LET g == GetStickyResult(c.st, StickyKey(spec, evalID))
             cache == UnmarshalCache(g.val)
         IN IF g.err # NoErr THEN Ret(FALSE, g.err, EmptyResult, c)
            ELSE IF g.val # EmptyVal /\ cache.ok
            THEN Ret(TRUE, NoErr, StickyHit(spec, cache), c)
            ELSE Ret(FALSE, NoErr, EmptyResult, c)

\* The deferred function of evalAB dropping the error of SetStickyResult.
StickyWrite_SwallowError(spec, evalID, r) ==
    IF r.err = NoErr /\ r.res.VariantID # Null
    THEN LET w == SetStickyResult(r.c.st, StickyKey(spec, evalID),
                                  MarshalCache(r.res.VariantID))
         IN Ret(r.ok, r.err, r.res, [r.c EXCEPT !.st = w.st])
    ELSE r

\* evalAB without the deferred function.
StickyWrite_Never(spec, evalID, r) == r

\* The deferred function of evalAB without its "result.VariantID != nil"
\* test.
StickyWrite_AnyVariant(spec, evalID, r) ==
    IF r.err = NoErr
    THEN LET w == SetStickyResult(r.c.st, StickyKey(spec, evalID),
                                  MarshalCache(r.res.VariantID))
         IN Ret(r.ok, w.err, r.res, [r.c EXCEPT !.st = w.st])
    ELSE r

\* The deferred function evalAB installs for a sticky spec: it writes the
\* variant when there is no error and a variant was chosen, and its error
\* becomes the error of evalAB.
StickyWrite(spec, evalID, r) ==
    IF r.err = NoErr /\ r.res.VariantID # Null
    THEN LET w == SetStickyResult(r.c.st, StickyKey(spec, evalID),
                                  MarshalCache(r.res.VariantID))
         IN Ret(r.ok, w.err, r.res, [r.c EXCEPT !.st = w.st])
    ELSE r

\* evalAB for a sticky spec after evalABSticky returned s.
AfterSticky(obs, user, spec, evalID, index, s) ==
    IF s.ok \/ s.err # NoErr THEN s
    ELSE StickyWrite(spec, evalID,
                     evalABRules(obs, user, spec, evalID, index + 1,
                                 Seeded(spec), s.c))

\* evalAB from the evalID on.
EvalWithID(obs, user, spec, evalID, index, c) ==
    IF evalID = "" THEN Ret(FALSE, NoErr, EmptyResult, c)
    ELSE IF spec.Sticky
    THEN AfterSticky(obs, user, spec, evalID, index,
                     evalABSticky(spec, evalID, c))
    ELSE evalABRules(obs, user, spec, evalID, index + 1, Seeded(spec), c)

\* The depth test of evalAB with > in place of >=.
DepthExceeded_OffByOne(index) == index > maxRecursionDepth

\* "index >= maxRecursionDepth" at the entry of evalAB
DepthExceeded(index) == index >= maxRecursionDepth

\* ABCore.evalAB
evalAB(obs, user, spec, index, c) ==
    IF DepthExceeded(index) THEN Ret(FALSE, NoErr, EmptyResult, c)
    ELSE IF ~spec.Enabled THEN Ret(FALSE, NoErr, EmptyResult, c)
    ELSE EvalWithID(obs, user, spec, getEvalID(user, spec), index, c)

\* Evaluate without its type validation.
Evaluate_NoTypeCheck(obs, user, key, typ, st) ==
    LET g == getABSpec(obs, key, [n |-> 0, st |-> st])
    IN IF ~g.found THEN Ret(FALSE, NoErr, EmptyResult, g.c)
       ELSE evalAB(obs, user, g.spec, 0, g.c)

\* ABCore.Evaluate(user, key, typ...): typ is the variadic argument, a
\* sequence of zero or one type.
Evaluate(obs, user, key, typ, st) ==
    LET g == getABSpec(obs, key, [n |-> 0, st |-> st])
    IN IF ~g.found THEN Ret(FALSE, NoErr, EmptyResult, g.c)
       ELSE IF Len(typ) > 0 /\ g.spec.Typ # typ[1]
       THEN Ret(FALSE, NoErr, EmptyResult, g.c)
       ELSE evalAB(obs, user, g.spec, 0, g.c)

(***************************************************************************)
(* Metadata of the model: users, specs, responses of the meta endpoint     *)
(***************************************************************************)

\* A nil map.
NilMap == <<>>

u1 == [AnonID |-> "a1", LoginID |-> "u1",
       ABUserProperties |-> [plan |-> StrV("pro")]]
u2 == [AnonID |-> "a2", LoginID |-> "", ABUserProperties |-> NilMap]
u0 == [AnonID |-> "", LoginID |-> "", ABUserProperties |-> NilMap]
Users == {u1, u2, u0}

Cond(class, field, opt, value) ==
    [FieldClass |-> class, Field |-> field, Opt |-> opt, Value |-> value]
RuleOf(salt, rollout, conds, override) ==
    [Salt |-> salt, Rollout |-> rollout, Conditions |-> conds,
     Override |-> override]
NoRules == [OVERRIDE |-> <<>>, TRAFFIC |-> <<>>, GATE |-> <<>>, GROUP |-> <<>>]
SpecOf(id, key, typ, subjectID) ==
    [ID |-> id, Key |-> key, Typ |-> typ, SubjectID |-> subjectID,
     Enabled |-> TRUE, Sticky |-> FALSE, DisableImpress |-> FALSE,
     Rules |-> NoRules, VariantPayloads |-> NilMap, VariantValues |-> NilMap]

Public == Cond("COMMON", "public", "", NilV)

\* Snapshot A: g_base passes users whose plan is "pro"; g_dep passes when
\* g_base passes.
gBaseA ==
    [SpecOf(1, "g_base", ABTypGate, "anon_id") EXCEPT
        !.Rules.GATE = <<RuleOf("s1", 100,
                          <<Cond("PROPS", "plan", "EQ", StrV("pro"))>>, Null)>>]
gDepA ==
    [SpecOf(2, "g_dep", ABTypGate, "anon_id") EXCEPT
        !.Rules.GATE = <<RuleOf("s1", 100,
                          <<Cond("", "g_base", "GATE_PASS", NilV)>>, Null)>>]
\* A sticky gate whose override rule names a variant id.
gOvr ==
    [SpecOf(3, "g_ovr", ABTypGate, "LOGIN_ID") EXCEPT
        !.Sticky = TRUE,
        !.Rules.OVERRIDE = <<RuleOf("s1", 100,
                              <<Cond("FFUSER", "login_id", "eq", StrV("u1"))>>,
                              "v1")>>]
\* A sticky config with a holdout: 70% of the subjects pass the traffic rule
\* and get variant "A", the others get "holdout"; both have a payload.
cfg ==
    [SpecOf(4, "cfg", ABTypConfig, "anon_id") EXCEPT
        !.Sticky = TRUE,
        !.Rules.TRAFFIC = <<RuleOf("s1", 70, <<>>, "holdout")>>,
        !.Rules.GATE = <<RuleOf("s1", 100, <<Public>>, "A")>>,
        !.VariantPayloads = [holdout |-> "{color:grey}", A |-> "{color:red}"]]
\* An experiment on the property "plan" with two groups.
expA ==
    [SpecOf(5, "exp", ABTypExp, "plan") EXCEPT
        !.Rules.GATE = <<RuleOf("s1", 100, <<Public>>, Null)>>,
        !.Rules.GROUP = <<RuleOf("s1", 100,
                            <<Cond("", "s2", "bucket_set", StrV("lowhalf"))>>, "A"),
                          RuleOf("s1", 100, <<Public>>, "B")>>,
        !.VariantPayloads = [A |-> "{color:red}", B |-> ""]]
\* A sticky gate with an operator the evaluator does not know.
gErrA ==
    [SpecOf(6, "g_err", ABTypGate, "anon_id") EXCEPT
        !.Sticky = TRUE,
        !.DisableImpress = TRUE,
        !.Rules.GATE = <<RuleOf("s1", 100,
                          <<Cond("PROPS", "plan", "frobnicate", NilV)>>, Null)>>]

\* Snapshot B: g_base passes nobody, g_dep passes when g_base fails, g_ovr
\* is disabled, cfg chooses no variant, the experiment's bucket set is not
\* hex, g_err names an unknown common field.
gBaseB == [gBaseA EXCEPT !.Rules.GATE[1].Rollout = 0]
gDepB == [gDepA EXCEPT !.Rules.GATE[1].Conditions[1].Opt = "GATE_FAIL"]
gOvrB == [gOvr EXCEPT !.Enabled = FALSE]
expB == [expA EXCEPT !.Rules.GROUP[1].Conditions[1].Value = StrV("zz")]
gErrB == [gErrA EXCEPT !.Rules.GATE[1].Conditions[1] =
                          Cond("COMMON", "private", "", NilV)]
\* cfg with other rules and without impressions: every subject passes the
\* traffic rule and the gate rule names no variant.
cfgB == [cfg EXCEPT !.Rules.TRAFFIC[1].Rollout = 100,
                    !.Rules.GATE[1].Override = Null,
                    !.DisableImpress = TRUE]
\* cfg with a payload that is not JSON.
cfgBad == [cfg EXCEPT !.VariantPayloads = [holdout |-> "{color:grey}",
                                           A |-> "{broken"]]

\* The keys callers ask for: the specs of the snapshots, and one that no
\* snapshot holds.
Keys == {"g_dep", "g_ovr", "cfg", "exp", "g_err", "no_such_key"}

\* ABDataResp
NoData == [Update |-> FALSE, UpdateTime |-> 0, ABEnv |-> [AlwaysTrack |-> FALSE],
           ABSpecs |-> <<>>]
DataA == [NoData EXCEPT !.UpdateTime = 100,
                        !.ABSpecs = <<gBaseA, gDepA, gOvr, cfg, expA, gErrA>>]
DataB == [NoData EXCEPT !.UpdateTime = 200,
                        !.ABSpecs = <<gBaseB, gDepB, gOvrB, cfgB, expB, gErrB>>]
DataBad == [NoData EXCEPT !.UpdateTime = 300,
                          !.ABSpecs = <<gBaseA, cfgBad, gDepA>>]
DataAForce == [DataA EXCEPT !.Update = TRUE]
\* The specs of B under the UpdateTime of A, with the update flag set.
DataBForce == [DataB EXCEPT !.Update = TRUE, !.UpdateTime = 100]

\* What httpClient.Do returns to LoadMeta: err, httpcode and the body; the
\* body either decodes into httpResponseABLoadRemoteMeta with Data = data
\* or does not decode.
RespOf(err, code, decodable, data) ==
    [err |-> err, code |-> code, decodable |-> decodable, data |-> data]
Responses ==
    {RespOf(TRUE, 0, FALSE, NoData), RespOf(FALSE, 500, FALSE, NoData),
     RespOf(FALSE, 200, FALSE, NoData), RespOf(FALSE, 200, TRUE, DataA),
     RespOf(FALSE, 200, TRUE, DataB), RespOf(FALSE, 200, TRUE, DataBad),
     RespOf(FALSE, 200, TRUE, DataAForce)}
\* The answers the loader is run against on its own.
LoaderResponses == Responses \cup {RespOf(FALSE, 200, TRUE, DataBForce)}

(***************************************************************************)
(* Metadata loader                                                         *)
(***************************************************************************)

\* HTTPSignatureMetaLoader.LoadMeta
LoadMeta(resp) ==
    IF resp.err \/ resp.code # 200
    THEN [err |-> "load meta failed", data |-> NoData]
    ELSE IF ~resp.decodable
    THEN [err |-> "unmarshal failed", data |-> NoData]
    ELSE [err |-> NoErr, data |-> resp.data]

\* json.Unmarshal(payload, &value) into a map[string]any, for the payloads
\* of the model.
PayloadUnmarshal(payload) ==
    CASE payload = "{color:red}" -> [ok |-> TRUE, value |-> "map[color:red]"]
      [] payload = "{color:grey}" -> [ok |-> TRUE, value |-> "map[color:grey]"]
      [] OTHER -> [ok |-> FALSE, value |-> Null]

\* The loop over spec.VariantPayloads in loadRemoteMeta: every payload of
\* len > 0 must decode; ok is FALSE when one does not.
ParsePayloads(spec) ==
    LET vids == {v \in DOMAIN spec.VariantPayloads :
                    spec.VariantPayloads[v] # ""}
    IN [ok |-> \A v \in vids : PayloadUnmarshal(spec.VariantPayloads[v]).ok,
        spec |-> [spec EXCEPT
                    !.VariantValues =
                        [v \in vids |->
                            PayloadUnmarshal(spec.VariantPayloads[v]).value],
                    !.VariantPayloads = NilMap]]

\* s.ABSpecs[spec.Key] = *spec
MapPut(m, k, v) == [x \in DOMAIN m \cup {k} |-> IF x = k THEN v ELSE m[x]]

\* needupdate of loadRemoteMeta set whatever the envelope says.
NeedUpdate_Always(data) == TRUE

\* needupdate of loadRemoteMeta without "needupdate := abData.Update".
NeedUpdate_IgnoreFlag(data) ==
    \/ storagePtr = 0
    \/ heap[storagePtr].UpdateTime # data.UpdateTime

\* needupdate of loadRemoteMeta
NeedUpdate(data) ==
    \/ data.Update
    \/ storagePtr = 0
    \/ heap[storagePtr].UpdateTime # data.UpdateTime

NoStorage == [UpdateTime |-> 0, ABEnv |-> [AlwaysTrack |-> FALSE],
              ABSpecs |-> NilMap]
NoOutcome == "none"

\* "for i := range abData.ABSpecs" from index i on, with s.ABSpecs = m so
\* far: the loop returns at the first spec with a payload that does not
\* decode, and m is then the partially built map.
RECURSIVE BuildFrom(_, _, _)
BuildFrom(data, i, m) ==
    IF i > Len(data.ABSpecs) THEN [ok |-> TRUE, ABSpecs |-> m]
    ELSE LET r == ParsePayloads(data.ABSpecs[i])
         IN IF ~r.ok THEN [ok |-> FALSE, ABSpecs |-> m]
            ELSE BuildFrom(data, i + 1, MapPut(m, r.spec.Key, r.spec))

\* loadRemoteMeta going on to setStorage after a payload failed to decode.
BuildStorage_IgnoreError(data) ==
    LET r == BuildFrom(data, 1, NilMap)
    IN [ok |-> TRUE,
        s |-> [UpdateTime |-> data.UpdateTime, ABEnv |-> data.ABEnv,
               ABSpecs |-> r.ABSpecs]]

\* The storage s of loadRemoteMeta
BuildStorage(data) ==
    LET r == BuildFrom(data, 1, NilMap)
    IN [ok |-> r.ok,
        s |-> [UpdateTime |-> data.UpdateTime, ABEnv |-> data.ABEnv,
               ABSpecs |-> r.ABSpecs]]

\* loadRemoteMeta filling the installed storage in place of a new one.
LoadAttempt_InPlace(resp) ==
    LET r == LoadMeta(resp)
        b == BuildStorage(r.data)
    IN IF r.err # NoErr
       THEN /\ loadOutcome' = "LoadMeta failed"
            /\ UNCHANGED <<heap, storagePtr>>
       ELSE IF ~NeedUpdate(r.data)
       THEN /\ loadOutcome' = "without new info"
            /\ UNCHANGED <<heap, storagePtr>>
       ELSE IF ~b.ok
       THEN /\ loadOutcome' = "VariantPayload error"
            /\ UNCHANGED <<heap, storagePtr>>
       ELSE IF storagePtr # 0
       THEN /\ heap' = [heap EXCEPT ![storagePtr] = b.s]
            /\ loadOutcome' = "installed"
            /\ UNCHANGED storagePtr
       ELSE /\ Len(heap) < MaxSnapshots
            /\ heap' = Append(heap, b.s)
            /\ storagePtr' = Len(heap) + 1
            /\ loadOutcome' = "installed"

\* loadRemoteMeta storing a nil storage when LoadMeta fails.
LoadAttempt_ClearOnFailure(resp) ==
    LET r == LoadMeta(resp)
        b == BuildStorage(r.data)
    IN IF r.err # NoErr
       THEN /\ loadOutcome' = "LoadMeta failed"
            /\ storagePtr' = 0
            /\ UNCHANGED heap
       ELSE IF ~NeedUpdate(r.data)
       THEN /\ loadOutcome' = "without new info"
            /\ UNCHANGED <<heap, storagePtr>>
       ELSE IF ~b.ok
       THEN /\ loadOutcome' = "VariantPayload error"
            /\ UNCHANGED <<heap, storagePtr>>
       ELSE /\ Len(heap) < MaxSnapshots
            /\ heap' = Append(heap, b.s)
            /\ storagePtr' = Len(heap) + 1
            /\ loadOutcome' = "installed"

\* The body of ABCore.loadRemoteMeta with resp the answer of the meta
\* endpoint.  The storage s is local to the call until setStorage publishes
\* it with one atomic store.
LoadAttempt(resp) ==
    LET r == LoadMeta(resp)
        b == BuildStorage(r.data)
    IN IF r.err # NoErr
       THEN /\ loadOutcome' = "LoadMeta failed"
            /\ UNCHANGED <<heap, storagePtr>>
       ELSE IF ~NeedUpdate(r.data)
       THEN /\ loadOutcome' = "without new info"
            /\ UNCHANGED <<heap, storagePtr>>
       ELSE IF ~b.ok
       THEN /\ loadOutcome' = "VariantPayload error"
            /\ UNCHANGED <<heap, storagePtr>>
       ELSE /\ Len(heap) < MaxSnapshots
            /\ heap' = Append(heap, b.s)
            /\ storagePtr' = Len(heap) + 1
            /\ loadOutcome' = "installed"

\* "case <-tick.C: abc.loadRemoteMeta()" of loadRemoteMetaLoop.  The loop
\* is in its select from Start on ("idle"); after cancel() a tick that is
\* ready together with ctx.Done() may still be chosen: the select picks
\* among its ready cases at random.  "cancelled" is the loop in its select
\* with no tick served since cancel(), "late" the same after such a tick.
loadRemoteMeta(resp) ==
    /\ loadPc \in {"idle", "cancelled", "late"}
    /\ LoadAttempt(resp)
    /\ loadPc' = IF loadPc = "idle" THEN "idle" ELSE "late"
    /\ UNCHANGED <<stickyMode, stickyData, evalPc, evalReq, evalObs,
                   caller, last>>
    /\ UNCHANGED pipeVars

\* ABCore.Start that fetches even when a storage is installed.
Start_AlwaysFetch(resp) ==
    /\ loadPc = "new"
    /\ LoadAttempt(resp)
    /\ loadPc' = "idle"
    /\ UNCHANGED <<stickyMode, stickyData, evalPc, evalReq, evalObs, caller,
                   last>>
    /\ UNCHANGED pipeVars

\* ABCore.Start: one loadRemoteMeta when no storage is installed, then
\* wg.Add(1) and "go abc.loadRemoteMetaLoop()".
Start(resp) ==
    /\ loadPc = "new"
    /\ IF storagePtr = 0
       THEN LoadAttempt(resp)
       ELSE UNCHANGED <<heap, storagePtr, loadOutcome>>
    /\ loadPc' = "idle"
    /\ UNCHANGED <<stickyMode, stickyData, evalPc, evalReq, evalObs, caller,
                   last>>
    /\ UNCHANGED pipeVars

\* ABCore.Stop: abc.cancel(), then abc.wg.Wait().
Stop ==
    /\ loadPc = "idle"
    /\ loadPc' = "cancelled"
    /\ UNCHANGED <<heap, storagePtr, loadOutcome, stickyMode, stickyData,
                   evalPc, evalReq, evalObs, caller, last>>
    /\ UNCHANGED pipeVars

\* "case <-abc.ctx.Done(): return" of loadRemoteMetaLoop; wg.Wait() of Stop
\* returns.
loadRemoteMetaLoopReturn ==
    /\ loadPc \in {"cancelled", "late"}
    /\ loadPc' = "stopped"
    /\ UNCHANGED <<heap, storagePtr, loadOutcome, stickyMode, stickyData,
                   evalPc, evalReq, evalObs, caller, last>>
    /\ UNCHANGED pipeVars

(***************************************************************************)
(* The evaluation methods: ABCore.Evaluate called directly, and the        *)
(* client's CheckFeatureGate, GetFeatureConfig and GetExperiment           *)
(***************************************************************************)

ClientApis == {"CheckFeatureGate", "GetFeatureConfig", "GetExperiment"}

\* The type each method of the client passes to ABCore.Evaluate.
ApiTyp(api) ==
    CASE api = "CheckFeatureGate" -> <<ABTypGate>>
      [] api = "GetFeatureConfig" -> <<ABTypConfig>>
      [] api = "GetExperiment" -> <<ABTypExp>>

\* The variadic typ argument of a direct call of ABCore.Evaluate.
TypArgs == {<<>>, <<ABTypGate>>, <<ABTypConfig>>, <<ABTypExp>>}

\* client.validateUser
validateUser(user) ==
    IF user.AnonID = "" /\ user.LoginID = "" THEN "ErrEmptyUserIDs" ELSE NoErr

\* What a method returns: b is the boolean of CheckFeatureGate, res the
\* ABResult of the other methods.
RetOf(b, res, err) == [b |-> b, res |-> res, err |-> err]

\* The methods returning the error of the Track call of logABImpression
\* when the channel is closed or full.
ApiReturn_TrackError(api, r) ==
    IF api = "Evaluate" THEN RetOf(FALSE, r.res, r.err)
    ELSE IF r.err # NoErr THEN RetOf(FALSE, EmptyResult, r.err)
    ELSE IF /\ ~r.res.DisableImpress /\ r.res.Key # ""
            /\ (chanClosed \/ Len(chanBuf) >= maxEventChanSize)
    THEN RetOf(FALSE, EmptyResult, "impression not tracked")
    ELSE IF api = "CheckFeatureGate"
    THEN RetOf(CheckFeatureGateOf(r.res), EmptyResult, NoErr)
    ELSE RetOf(FALSE, r.res, NoErr)

\* The return statement of the method after Evaluate returned r.
ApiReturn(api, r) ==
    IF api = "Evaluate" THEN RetOf(FALSE, r.res, r.err)
    ELSE IF r.err # NoErr THEN RetOf(FALSE, EmptyResult, r.err)
    ELSE IF api = "CheckFeatureGate"
    THEN RetOf(CheckFeatureGateOf(r.res), EmptyResult, NoErr)
    ELSE RetOf(FALSE, r.res, NoErr)

\* The test before c.logABImpression without "!result.DisableImpress".
LogsImpression_IgnoreDisable(api, r) ==
    /\ api \in ClientApis
    /\ r.err = NoErr
    /\ r.res.Key # ""

\* Whether the method calls c.logABImpression(user, result).
LogsImpression(api, r) ==
    /\ api \in ClientApis
    /\ r.err = NoErr
    /\ ~r.res.DisableImpress
    /\ r.res.Key # ""

\* The $ABImpress event logABImpression hands to Track.
ImpressEvent == [event |-> "$ABImpress", kind |-> "ok", size |-> 1]

\* A completed call: its method and arguments, whether it reached
\* ABCore.Evaluate, the addresses its loads of storagePtr returned, what
\* Evaluate returned (res, err), what the method returned (ret) and whether
\* it logged an impression.
CallOf(req, evaluated, obs, r, ret, impress) ==
    [api |-> req.api, typ |-> req.typ, user |-> req.user, key |-> req.key,
     evaluated |-> evaluated, obs |-> obs, res |-> r.res, err |-> r.err,
     ret |-> ret, impress |-> impress]

NoReq == [api |-> "none", typ |-> <<>>, user |-> u0, key |-> ""]
NoCall ==
    [api |-> "none", typ |-> <<>>, user |-> u0, key |-> "",
     evaluated |-> FALSE, obs |-> <<>>, res |-> EmptyResult, err |-> NoErr,
     ret |-> RetOf(FALSE, EmptyResult, NoErr), impress |-> FALSE]

\* The entry of a method.  The client's methods load storagePtr once to
\* refuse a client without metadata, then validate the user; a direct call
\* of ABCore.Evaluate does neither.
EvalBegin(api, typ) ==
    /\ evalPc = "idle"
    /\ pc[ABCaller] = "idle"
    /\ LET req == [api |-> api, typ |-> typ, user |-> caller.user,
                   key |-> caller.key]
           early == IF api = "Evaluate" THEN NoErr
                    ELSE IF storagePtr = 0 THEN "ErrABNotReady"
                    ELSE validateUser(caller.user)
       IN IF early # NoErr
          THEN /\ last' = CallOf(req, FALSE, <<>>,
                                 Ret(FALSE, NoErr, EmptyResult, 0),
                                 RetOf(FALSE, EmptyResult, early), FALSE)
               /\ UNCHANGED <<evalPc, evalReq, evalObs>>
          ELSE /\ evalPc' = "run"
               /\ evalReq' = req
               /\ evalObs' = <<>>
               /\ UNCHANGED last
    /\ UNCHANGED <<heap, storagePtr, loadPc, loadOutcome, stickyMode,
                   stickyData, caller>>
    /\ UNCHANGED pipeVars

\* ABCore.Evaluate for the call in progress, given the loads it has made.
EvalRun ==
    Evaluate(evalObs, evalReq.user, evalReq.key, evalReq.typ, stickyData)

\* The call in progress is about to load storagePtr again.
EvalNeedsLoad ==
    IF Len(evalObs) = 0 THEN TRUE ELSE EvalRun.c.n > Len(evalObs)

\* abc.storage() in getABSpec: the next atomic load of the call.
EvalLoad ==
    /\ evalPc = "run"
    /\ EvalNeedsLoad
    /\ evalObs' = Append(evalObs, storagePtr)
    /\ UNCHANGED <<heap, storagePtr, loadPc, loadOutcome, stickyMode,
                   stickyData, evalPc, evalReq, caller, last>>
    /\ UNCHANGED pipeVars

\* The number of Track calls made by logABImpression so far.
Impressions ==
    Cardinality({i \in DOMAIN calls : calls[i].event = ImpressEvent.event})

\* The rest of the call after its last load, with r what ABCore.Evaluate
\* returns: the sticky reads and writes of the evaluation, the impression
\* event, the return.
EvalReturn(r) ==
    /\ r.c.n <= Len(evalObs)
    /\ LogsImpression(evalReq.api, r) => Impressions < MaxImpress
    /\ stickyData' = r.c.st
    /\ last' = CallOf(evalReq, TRUE, evalObs, r, ApiReturn(evalReq.api, r),
                      LogsImpression(evalReq.api, r))
    /\ IF LogsImpression(evalReq.api, r)
       THEN TrackSend(ABCaller, ImpressEvent)
       ELSE UNCHANGED <<chanBuf, sendq, pc, calls>>

\* A call that has made its last load returns.
EvalFinish ==
    /\ evalPc = "run"
    /\ Len(evalObs) > 0
    /\ EvalReturn(EvalRun)
    /\ evalPc' = "idle"
    /\ evalReq' = NoReq
    /\ evalObs' = <<>>
    /\ UNCHANGED <<heap, storagePtr, loadPc, loadOutcome, stickyMode,
                   caller>>
    /\ UNCHANGED <<quit, chanClosed, msgQue, loopPc, loopBatch, sem, wg,
                   batches, senders, failLog, hasFailHandler, closePc>>

(***************************************************************************)
(* Construction and the next-state relations                               *)
(***************************************************************************)

StickyModes == {"none", "mem", "getfail", "setfail"}

\* NewWithConfig: the channel, the permits, wg.Add(1); go c.loop().
InitPipeline ==
    /\ quit = FALSE
    /\ chanBuf = <<>>
    /\ chanClosed = FALSE
    /\ sendq = <<>>
    /\ msgQue = [pending |-> <<>>, isNil |-> TRUE, size |-> 0, bodySize |-> 0]
    /\ loopPc = "select"
    /\ loopBatch = NoBody
    /\ sem = HTTPConcurrency
    /\ wg = 1
    /\ batches = <<>>
    /\ senders = <<>>
    /\ failLog = <<>>
    /\ hasFailHandler \in BOOLEAN
    /\ pc = [p \in Callers |-> "idle"]
    /\ calls = <<>>
    /\ closePc = "idle"

\* No client: an ABCore used on its own.
InitNoClient ==
    /\ quit = FALSE
    /\ chanBuf = <<>>
    /\ chanClosed = FALSE
    /\ sendq = <<>>
    /\ msgQue = [pending |-> <<>>, isNil |-> TRUE, size |-> 0, bodySize |-> 0]
    /\ loopPc = "off"
    /\ loopBatch = NoBody
    /\ sem = 0
    /\ wg = 0
    /\ batches = <<>>
    /\ senders = <<>>
    /\ failLog = <<>>
    /\ hasFailHandler = FALSE
    /\ pc = [p \in Callers |-> "idle"]
    /\ calls = <<>>
    /\ closePc = "idle"

\* A client built from a Config without AB: c.abCore is nil.
InitNoAB ==
    /\ heap = <<>>
    /\ storagePtr = 0
    /\ loadPc = "off"
    /\ loadOutcome = NoOutcome
    /\ stickyMode = "none"
    /\ stickyData = {}
    /\ evalPc = "off"
    /\ evalReq = NoReq
    /\ evalObs = <<>>
    /\ caller = [user |-> u0, key |-> ""]
    /\ last = NoCall

\* json.Marshal of an ABSpec: every field but VariantValues, whose tag is
\* json:"-".
SpecMarshal(spec) == [f \in DOMAIN spec \ {"VariantValues"} |-> spec[f]]

\* json.Unmarshal into an ABSpec: VariantValues is not in the document and
\* stays nil.
SpecUnmarshal(doc) ==
    [f \in DOMAIN doc \cup {"VariantValues"} |->
        IF f = "VariantValues" THEN NilMap ELSE doc[f]]

\* json.Marshal(storage) of GetStorageSnapshot, as the document it writes.
StorageMarshal(s) ==
    [UpdateTime |-> s.UpdateTime, ABEnv |-> s.ABEnv,
     ABSpecs |-> [k \in DOMAIN s.ABSpecs |-> SpecMarshal(s.ABSpecs[k])]]

\* Byte strings: the empty one, one that is not JSON, and the text of a
\* document.
BytesOf(kind, doc) == [kind |-> kind, doc |-> doc]
NoBytes == BytesOf("empty", StorageMarshal(NoStorage))
BadBytes == BytesOf("{", StorageMarshal(NoStorage))

\* ABCore.GetStorageSnapshot of a core whose storage is s.
GetStorageSnapshot(s) == BytesOf("json", StorageMarshal(s))

\* Config.AB.LoadABSpecs: empty, bytes that are not JSON, and the exported
\* storage of snapshot A.
LoadABSpecsInputs ==
    {NoBytes, BadBytes, GetStorageSnapshot(BuildStorage(DataA).s)}

\* json.Unmarshal(abc.abCfg.LoadABSpecs, &s) of NewABCore
StorageUnmarshal(js) ==
    IF js.kind = "json"
    THEN [ok |-> TRUE,
          s |-> [UpdateTime |-> js.doc.UpdateTime, ABEnv |-> js.doc.ABEnv,
                 ABSpecs |-> [k \in DOMAIN js.doc.ABSpecs |->
                                 SpecUnmarshal(js.doc.ABSpecs[k])]]]
    ELSE [ok |-> FALSE, s |-> NoStorage]

\* The storage NewABCore installs for LoadABSpecs = js, as the heap.
FastBoot(js) ==
    IF js # NoBytes /\ StorageUnmarshal(js).ok
    THEN <<StorageUnmarshal(js).s>>
    ELSE <<>>

\* NewABCore before Start, used on its own, with any LoadABSpecs.
InitLoader ==
    /\ InitNoClient
    /\ \E js \in LoadABSpecsInputs : heap = FastBoot(js)
    /\ storagePtr = Len(heap)
    /\ loadPc = "new"
    /\ loadOutcome = NoOutcome
    /\ stickyMode = "none"
    /\ stickyData = {}
    /\ evalPc = "idle"
    /\ evalReq = NoReq
    /\ evalObs = <<>>
    /\ caller = [user |-> u1, key |-> "g_dep"]
    /\ last = NoCall

NextLoader ==
    \/ \E resp \in LoaderResponses : Start(resp)
    \/ \E resp \in LoaderResponses : loadRemoteMeta(resp)
    \/ Stop
    \/ loadRemoteMetaLoopReturn

\* The metadata loader of an ABCore from NewABCore to Stop.
SpecLoader == InitLoader /\ [][NextLoader]_vars

\* GetStorageSnapshot of the core, then NewABCore of a new core with
\* Config.AB.LoadABSpecs set to the exported bytes.  The storage of the
\* new core is a new object; the exported one stays where it is.
Reboot ==
    /\ loadPc \in {"idle", "stopped"}
    /\ storagePtr # 0
    /\ Len(heap) < MaxSnapshots + 1
    /\ heap' = heap \o FastBoot(GetStorageSnapshot(heap[storagePtr]))
    /\ storagePtr' = Len(heap')
    /\ loadPc' = "new"
    /\ loadOutcome' = NoOutcome
    /\ UNCHANGED <<stickyMode, stickyData, evalPc, evalReq, evalObs, caller,
                   last>>
    /\ UNCHANGED pipeVars

NextBoot ==
    \/ \E resp \in Responses : Start(resp)
    \/ \E resp \in Responses : loadRemoteMeta(resp)
    \/ Stop
    \/ loadRemoteMetaLoopReturn
    \/ Reboot

\* Cores that are booted from the snapshot exported by the one before.
SpecBoot == InitLoader /\ [][NextBoot]_vars

\* NewABCore with an empty Config.AB.LoadABSpecs: no storage is installed.
\* The loader is past Start.  The caller's user and key are inputs of the
\* run.
InitEval ==
    /\ heap = <<>>
    /\ storagePtr = 0
    /\ loadPc = "idle"
    /\ loadOutcome = NoOutcome
    /\ stickyMode \in StickyModes
    /\ evalPc = "idle"
    /\ evalReq = NoReq
    /\ evalObs = <<>>
    /\ caller \in [user : Users, key : Keys]
    /\ last = NoCall

\* The evaluator over a sticky store that holds nothing yet.
InitAB == InitEval /\ stickyData = {}

Init ==
    /\ InitPipeline
    /\ InitNoAB

Next ==
    \/ \E p \in Producers, e \in Events : Track(p, e)
    \/ LoopRecvMsg
    \/ LoopTick
    \/ LoopQuit
    \/ LoopDrain
    \/ LoopDrainEnd
    \/ LoopAcquire
    \/ LoopExit
    \/ \E b \in 1..MaxEvents, o \in HTTPOutcomes : SenderAttempt(b, o)
    \/ \E b \in 1..MaxEvents : SenderFinish(b)
    \/ CloseCall
    \/ CloseReturn

\* The event pipeline of a client without AB.
Spec == Init /\ [][Next]_vars

InitCore ==
    /\ InitNoClient
    /\ InitAB

NextAB ==
    \/ \E typ \in TypArgs : EvalBegin("Evaluate", typ)
    \/ EvalLoad
    \/ EvalFinish
    \/ \E resp \in Responses : loadRemoteMeta(resp)

\* An ABCore used directly: Evaluate against the metadata loader.
SpecAB == InitCore /\ [][NextAB]_vars

\* NewWithConfig with Config.AB set and an in-memory StickyHandler.
InitClient ==
    /\ InitPipeline
    /\ InitAB
    /\ stickyMode = "mem"

NextClient ==
    \/ \E api \in ClientApis : EvalBegin(api, ApiTyp(api))
    \/ EvalLoad
    \/ EvalFinish
    \/ \E resp \in Responses : loadRemoteMeta(resp)
    \/ LoopRecvMsg
    \/ LoopTick
    \/ \E b \in 1..MaxEvents, o \in HTTPOutcomes : SenderAttempt(b, o)
    \/ \E b \in 1..MaxEvents : SenderFinish(b)

\* A client with AB: its evaluation methods, the metadata loader and the
\* event pipeline that carries the impressions.  The impressions are the
\* only events and there are at most MaxImpress of them; the loop's wait
\* for a sender permit and Close are exercised by Spec.
SpecClient == InitClient /\ [][NextClient]_vars

\* The keys of the sticky specs of the snapshots.
StickyKeys == {"cfg", "g_ovr", "g_err"}

\* NewWithConfig with Config.AB set and any StickyHandler, or none; the
\* caller asks for a sticky spec.
InitSticky ==
    /\ InitPipeline
    /\ InitAB
    /\ ~hasFailHandler
    /\ caller.key \in StickyKeys

NextSticky ==
    \/ \E api \in ClientApis : EvalBegin(api, ApiTyp(api))
    \/ EvalLoad
    \/ EvalFinish
    \/ \E resp \in Responses : loadRemoteMeta(resp)
    \/ LoopRecvMsg
    \/ LoopTick

\* A client whose callers evaluate sticky specs, with every kind of sticky
\* handler; the loop takes the impressions from the channel and the
\* senders make no step.
SpecSticky == InitSticky /\ [][NextSticky]_vars

\* The stores a StickyHandler is handed over with: nothing, or a value for
\* spec cfg and subject "a1" that another writer left there.
StickyStores == {{}, {[k |-> StickyKey(cfg, "a1"), val |-> BadVal]}}

\* NewABCore with a StickyHandler over one of these stores, or none; the
\* caller asks for a sticky spec.
InitStore ==
    /\ InitNoClient
    /\ InitEval
    /\ stickyData \in StickyStores
    /\ caller.key \in StickyKeys

\* An ABCore whose callers evaluate sticky specs over a store that may
\* hold values the core did not write.
SpecStore == InitStore /\ [][NextAB]_vars

\* A snapshot whose gate conditions form cycles: g_base passes when g_dep
\* passes and g_dep when g_base passes; g_loop passes when g_loop fails.
gBaseC == [gBaseA EXCEPT !.Rules.GATE[1].Conditions =
                            <<Cond("", "g_dep", "GATE_PASS", NilV)>>]
gLoop ==
    [SpecOf(7, "g_loop", ABTypGate, "anon_id") EXCEPT
        !.Rules.GATE = <<RuleOf("s1", 100,
                          <<Cond("", "g_loop", "GATE_FAIL", NilV)>>, Null)>>]
DataCycle == [NoData EXCEPT !.UpdateTime = 400,
                            !.ABSpecs = <<gBaseC, gDepA, gLoop>>]
CycleResponses == {RespOf(FALSE, 200, TRUE, DataA),
                   RespOf(FALSE, 200, TRUE, DataCycle)}
CycleKeys == {"g_base", "g_dep", "g_loop"}

\* The values of index evalAB is entered with: the last ones below the
\* limit, the limit and one above.
EntryDepths == (maxRecursionDepth - 3)..(maxRecursionDepth + 1)

\* evalAB(user, spec, index) for a spec of the installed snapshot, with
\* every getABSpec below it reading the same snapshot.  n is the number
\* of getABSpec calls made below the entry.
EvalABAt(index) ==
    /\ evalPc = "idle"
    /\ storagePtr # 0
    /\ caller.key \in DOMAIN heap[storagePtr].ABSpecs
    /\ LET r == evalAB(<<storagePtr>>, caller.user,
                       heap[storagePtr].ABSpecs[caller.key], index,
                       [n |-> 0, st |-> stickyData])
       IN /\ last' = [api |-> "evalAB", typ |-> <<>>, user |-> caller.user,
                      key |-> caller.key, evaluated |-> TRUE,
                      obs |-> <<storagePtr>>, res |-> r.res, err |-> r.err,
                      ret |-> RetOf(FALSE, r.res, r.err), impress |-> FALSE,
                      index |-> index, n |-> r.c.n]
          /\ stickyData' = r.c.st
    /\ UNCHANGED <<heap, storagePtr, loadPc, loadOutcome, stickyMode,
                   evalPc, evalReq, evalObs, caller>>
    /\ UNCHANGED pipeVars

\* NewABCore without a StickyHandler.
InitCycle ==
    /\ InitNoClient
    /\ heap = <<>>
    /\ storagePtr = 0
    /\ loadPc = "idle"
    /\ loadOutcome = NoOutcome
    /\ stickyMode = "none"
    /\ stickyData = {}
    /\ evalPc = "idle"
    /\ evalReq = NoReq
    /\ evalObs = <<>>
    /\ caller \in [user : Users, key : CycleKeys]
    /\ last = NoCall

NextCycle ==
    \/ \E index \in EntryDepths : EvalABAt(index)
    \/ \E resp \in CycleResponses : loadRemoteMeta(resp)

\* evalAB near its depth limit on the snapshots an ABCore installs from a
\* meta endpoint that serves snapshot A and the snapshot with the cycles.
SpecCycle == InitCycle /\ [][NextCycle]_vars

\* The rules evalRule is applied to: every rollout with conditions that
\* pass, fail, fail with an error, or ask for another spec.
RuleConditions ==
    {<<>>, <<Public>>,
     <<Cond("PROPS", "plan", "EQ", StrV("pro"))>>,
     <<Cond("PROPS", "plan", "frobnicate", NilV)>>,
     <<Cond("", "g_base", "GATE_PASS", NilV)>>,
     <<Public, Cond("COMMON", "private", "", NilV)>>}
Rollouts == {0, 50, 100}
Rules == {RuleOf(salt, rollout, conds, Null) :
             salt \in {"s1", "s2"}, rollout \in Rollouts,
             conds \in RuleConditions}

\* The ids of the users that are not empty.
EvalIDs == {"a1", "a2", "u1"}

\* evalRule(user, rule, evalID, index) as evalAB calls it for a rule of a
\* top-level spec: evalID is an id of the user and is not empty.  n is the
\* number of getABSpec calls the conditions made.
EvalRuleOf(rule, evalID) ==
    /\ evalPc = "idle"
    /\ evalID \in {caller.user.AnonID, caller.user.LoginID}
    /\ LET r == evalRule(<<storagePtr>>, caller.user, rule, evalID, 1,
                         [n |-> 0, st |-> stickyData])
       IN last' = [api |-> "evalRule", typ |-> <<>>, user |-> caller.user,
                   key |-> caller.key, evaluated |-> TRUE,
                   obs |-> <<storagePtr>>, res |-> r.res, err |-> r.err,
                   ret |-> RetOf(r.ok, r.res, r.err), impress |-> FALSE,
                   rule |-> rule, evalID |-> evalID, n |-> r.c.n]
    /\ UNCHANGED <<heap, storagePtr, loadPc, loadOutcome, stickyMode,
                   stickyData, evalPc, evalReq, evalObs, caller>>
    /\ UNCHANGED pipeVars

RuleResponses == {RespOf(FALSE, 200, TRUE, DataA),
                  RespOf(FALSE, 200, TRUE, DataB)}

NextRule ==
    \/ \E rule \in Rules, evalID \in EvalIDs : EvalRuleOf(rule, evalID)
    \/ \E resp \in RuleResponses : loadRemoteMeta(resp)

\* evalRule on the snapshots an ABCore installs.
SpecRule == InitCycle /\ [][NextRule]_vars

\* The meta endpoint answers every fetch with snapshot A.
MetaA == RespOf(FALSE, 200, TRUE, DataA)

NextBusy ==
    \/ \E e \in Events : Track("p1", e)
    \/ \E api \in ClientApis : EvalBegin(api, ApiTyp(api))
    \/ EvalLoad
    \/ EvalFinish
    \/ loadRemoteMeta(MetaA)
    \/ LoopRecvMsg

InitBusy == InitClient /\ ~hasFailHandler

\* A client under load: one goroutine tracks events while another
\* evaluates, the meta endpoint serves snapshot A, and the loop receives
\* from the channel while the ticker and the senders make no step.
SpecBusy == InitBusy /\ [][NextBusy]_vars

\* client.Close of a client with AB: close(c.quit), then abc.cancel() of
\* abCore.Stop, which goes on to wait for the loader loop.
CloseAB ==
    /\ closePc = "idle"
    /\ loadPc = "idle"
    /\ quit' = TRUE
    /\ loadPc' = "cancelled"
    /\ closePc' = "stop"
    /\ UNCHANGED <<chanBuf, chanClosed, sendq, msgQue, loopPc, loopBatch, sem,
                   wg, batches, senders, failLog, hasFailHandler, pc, calls>>
    /\ UNCHANGED <<heap, storagePtr, loadOutcome, stickyMode, stickyData,
                   evalPc, evalReq, evalObs, caller, last>>

\* abc.wg.Wait() of abCore.Stop returns; Close goes on to c.wg.Wait().
StopReturn ==
    /\ closePc = "stop"
    /\ loadPc = "stopped"
    /\ closePc' = "wait"
    /\ UNCHANGED <<quit, chanBuf, chanClosed, sendq, msgQue, loopPc,
                   loopBatch, sem, wg, batches, senders, failLog,
                   hasFailHandler, pc, calls>>
    /\ UNCHANGED abVars

\* The event the producer tracks and the keys the caller asks for.
ClickEvent == [event |-> "click", kind |-> "ok", size |-> 1]
ShutKeys == {"g_dep", "cfg"}

InitShut == InitBusy /\ caller.key \in ShutKeys

NextShut ==
    \/ Track("p1", ClickEvent)
    \/ \E api \in ClientApis : EvalBegin(api, ApiTyp(api))
    \/ EvalLoad
    \/ EvalFinish
    \/ loadRemoteMeta(MetaA)
    \/ loadRemoteMetaLoopReturn
    \/ LoopRecvMsg
    \/ LoopQuit
    \/ LoopDrain
    \/ LoopDrainEnd
    \/ LoopAcquire
    \/ LoopExit
    \/ \E b \in 1..MaxEvents : SenderAttempt(b, "ok200")
    \/ \E b \in 1..MaxEvents : SenderFinish(b)
    \/ CloseAB
    \/ StopReturn
    \/ CloseReturn

\* A client with AB that is closed while a producer tracks events and a
\* caller evaluates: the meta endpoint serves snapshot A and the event
\* endpoint answers 200.
SpecShut == InitShut /\ [][NextShut]_vars

InitLive ==
    /\ InitClient
    /\ caller = [user |-> u1, key |-> "cfg"]

NextLive ==
    \/ \E p \in Producers : Track(p, ClickEvent)
    \/ loadRemoteMeta(MetaA)
    \/ loadRemoteMetaLoopReturn
    \/ LoopRecvMsg
    \/ LoopTick
    \/ LoopQuit
    \/ LoopDrain
    \/ LoopDrainEnd
    \/ LoopAcquire
    \/ LoopExit
    \/ \E b \in 1..MaxEvents, o \in HTTPOutcomes : SenderAttempt(b, o)
    \/ \E b \in 1..MaxEvents : SenderFinish(b)
    \/ CloseAB
    \/ StopReturn
    \/ CloseReturn

\* The goroutines of the client run: the loop goes on after a receive, a
\* permit or the end of the drain; a select whose quit or ctx.Done() case
\* is ready again and again takes it, because select chooses among its
\* ready cases at random; every HTTP attempt and failure callback
\* returns; wg.Wait() returns once the counter is zero.  Producers and the
\* tickers are free to make no step.
FairLive ==
    /\ WF_vars(LoopDrain)
    /\ WF_vars(LoopDrainEnd)
    /\ WF_vars(LoopAcquire)
    /\ WF_vars(LoopExit)
    /\ SF_vars(LoopQuit)
    /\ SF_vars(loadRemoteMetaLoopReturn)
    /\ \A b \in 1..MaxEvents :
          /\ WF_vars(\E o \in HTTPOutcomes : SenderAttempt(b, o))
          /\ WF_vars(SenderFinish(b))
    /\ WF_vars(StopReturn)
    /\ WF_vars(CloseReturn)

\* A client with AB that is closed at any moment while producers track
\* events, the event endpoint answers in every way and the meta endpoint
\* serves snapshot A; the goroutines of the client are scheduled fairly.
SpecLive == InitLive /\ [][NextLive]_vars /\ FairLive

(***************************************************************************)
(* Claims about the event pipeline                                         *)
(***************************************************************************)

\* A Track call that got as far as the channel send.
Sent(i) == calls[i].kind = "ok"

\* C1: a Track call that finds the input channel full returns
\* ErrTooManyRequests instead of blocking, and a call that finds room in the
\* open channel enqueues its message and returns nil.
C1_FullChannelReturnsTooManyRequests ==
    \A i \in DOMAIN calls :
        Sent(i) =>
            /\ calls[i].full =>
                   /\ calls[i].status = "returned"
                   /\ calls[i].ret = "ErrTooManyRequests"
            /\ (~calls[i].full /\ calls[i].kind = "ok" /\ calls[i].queued) =>
                   /\ calls[i].status = "returned"
                   /\ calls[i].ret = "nil"

\* C2: every Track call made after Close has returned ends with a non-nil
\* error.
C2_TrackAfterCloseReturnsError ==
    \A i \in DOMAIN calls :
        calls[i].afterClose =>
            /\ calls[i].status = "returned"
            /\ calls[i].ret # "nil"

\* The positions <<b, k>> at which event i occurs in the batches handed to
\* the send stage.
Placements(i) ==
    {bk \in {<<b, k>> : b \in DOMAIN batches, k \in 1..maxBatchSize} :
        /\ bk[2] \in DOMAIN batches[bk[1]]
        /\ batches[bk[1]][bk[2]].id = i}

\* C3: when Close has returned, every event for which Track returned nil
\* is in exactly one batch handed to the send stage.
C3_AcceptedEventsBatchedOnce ==
    closePc = "returned" =>
        \A i \in DOMAIN calls :
            (calls[i].status = "returned" /\ calls[i].ret = "nil") =>
                Cardinality(Placements(i)) = 1

\* C4: when Close has returned, the batching loop has exited and every
\* sender that was spawned has finished.
C4_CloseIsBarrier ==
    closePc = "returned" =>
        /\ loopPc = "exited"
        /\ loopBatch.isNil
        /\ \A b \in DOMAIN senders : senders[b].pc = "done"

\* Close has returned after two batches were sent, one of them retried and
\* reported to the failure callback.
C4_Witness ==
    /\ closePc = "returned"
    /\ Len(senders) >= 2
    /\ failLog # <<>>
    /\ \E b \in DOMAIN senders : senders[b].i = HTTPRetry + 1

(***************************************************************************)
(* Claims about the A/B core                                               *)
(***************************************************************************)

\* The addresses a completed call loaded from storagePtr.
ObsOf(call) == {call.obs[i] : i \in DOMAIN call.obs}

\* The spec a completed call found under its key with its first load.
FoundSpec(call) ==
    /\ call.evaluated
    /\ call.obs[1] # 0
    /\ call.key \in DOMAIN heap[call.obs[1]].ABSpecs
TopSpec(call) == heap[call.obs[1]].ABSpecs[call.key]

\* C5: every evaluation call takes the specs it uses, the dependent specs
\* of its gate_pass and gate_fail conditions included, from one snapshot:
\* all loads of storagePtr made by one call return the same storage.
C5_OneSnapshotPerCall == last.evaluated => Cardinality(ObsOf(last)) <= 1

\* The responses with which a load attempt fails: transport error, status
\* other than 200, undecodable body, or a variant payload that does not
\* decode.
RespFails(resp) ==
    \/ resp.err
    \/ resp.code # 200
    \/ ~resp.decodable
    \/ \E i \in DOMAIN resp.data.ABSpecs :
          \E v \in DOMAIN resp.data.ABSpecs[i].VariantPayloads :
             /\ resp.data.ABSpecs[i].VariantPayloads[v] # ""
             /\ ~PayloadUnmarshal(resp.data.ABSpecs[i].VariantPayloads[v]).ok

\* The storage that holds every spec of data with its payloads parsed.
FullStorage(data) ==
    [UpdateTime |-> data.UpdateTime, ABEnv |-> data.ABEnv,
     ABSpecs |-> [k \in {data.ABSpecs[i].Key : i \in DOMAIN data.ABSpecs} |->
                    ParsePayloads(
                      data.ABSpecs[CHOOSE i \in DOMAIN data.ABSpecs :
                                      data.ABSpecs[i].Key = k]).spec]]

\* C6: a load attempt that fails leaves storagePtr and every published
\* storage as they were (no step that changes either is a load attempt
\* with a failing response), and every storage a reader can reach is the
\* complete build of a response whose payloads all decode.
C6_FailedLoadKeepsSnapshot ==
    /\ [][(storagePtr' # storagePtr \/ heap' # heap)
            => ~\E resp \in Responses :
                   RespFails(resp) /\ loadRemoteMeta(resp)]_vars
    /\ [](\A a \in DOMAIN heap :
            \E resp \in Responses :
               ~RespFails(resp) /\ heap[a] = FullStorage(resp.data))

\* A load attempt failed on a variant payload while a snapshot was
\* installed.
C6_Witness == loadOutcome = "VariantPayload error" /\ storagePtr # 0

\* C7: an evaluation of an enabled Gate for a user with a non-empty subject
\* value that returns without error yields variant "pass" or "fail".
C7_GateVariantPassOrFail ==
    (/\ FoundSpec(last)
     /\ TopSpec(last).Typ = ABTypGate
     /\ TopSpec(last).Enabled
     /\ getEvalID(last.user, TopSpec(last)) # ""
     /\ (last.typ = <<>> \/ last.typ = <<ABTypGate>>)
     /\ last.err = NoErr)
    => last.res.VariantID \in {VariantIDPass, VariantIDFail}

\* C8: a call that repeats the previous call (same method, arguments, user
\* and key) against the same snapshot, with nothing but the previous call
\* having touched the sticky store, returns the same variant and payload.
C8_RepeatedEvaluationSame ==
    [][(/\ evalPc = "run"
        /\ evalPc' = "idle"
        /\ last.evaluated
        /\ last.api = evalReq.api
        /\ last.typ = evalReq.typ
        /\ Cardinality(ObsOf(last) \cup ObsOf(last')) = 1)
       => (/\ last'.res.VariantID = last.res.VariantID
           /\ last'.res.VariantParamValue = last.res.VariantParamValue)]_vars

\* C9: when the evaluator returns an error, the result it returns is the
\* empty result.
C9_ErrorResultEmpty ==
    (last.evaluated /\ last.err # NoErr) => last.res = EmptyResult

\* The two calls are CheckFeatureGate and GetFeatureConfig or GetExperiment
\* for a key that names a Gate, against the same snapshot.
GatePair(a, b) ==
    /\ a.api = "CheckFeatureGate"
    /\ b.api \in {"GetFeatureConfig", "GetExperiment"}
    /\ FoundSpec(a)
    /\ FoundSpec(b)
    /\ TopSpec(a).Typ = ABTypGate
    /\ Cardinality(ObsOf(a) \cup ObsOf(b)) = 1

\* C10 as stated: CheckFeatureGate(u, k) is true iff GetFeatureConfig(u, k)
\* or GetExperiment(u, k) returns variant "pass", for consecutive calls in
\* either order.
C10_GateEqualsConfigPass ==
    [][(evalPc = "run" /\ evalPc' = "idle")
       => /\ GatePair(last, last')
             => (last.ret.b <=> last'.ret.res.VariantID = VariantIDPass)
          /\ GatePair(last', last)
             => (last'.ret.b <=> last.ret.res.VariantID = VariantIDPass)]_vars

\* C10, amended: for a key that names a Gate, CheckFeatureGate returns true
\* iff ABCore.Evaluate returned, without error, a result with variant
\* "pass"; GetFeatureConfig and GetExperiment return the empty result and a
\* nil error.
C10_GateEqualsEvaluatePass ==
    (FoundSpec(last) /\ TopSpec(last).Typ = ABTypGate)
    => /\ last.api = "CheckFeatureGate"
            => (last.ret.b <=> (last.err = NoErr
                                /\ last.res.VariantID = VariantIDPass))
       /\ last.api \in {"GetFeatureConfig", "GetExperiment"}
            => (last.ret.res = EmptyResult /\ last.ret.err = NoErr)

\* CheckFeatureGate returned true for a Gate key.
C10_Witness ==
    /\ FoundSpec(last)
    /\ TopSpec(last).Typ = ABTypGate
    /\ last.api = "CheckFeatureGate"
    /\ last.ret.b

\* The call got past the entry checks of its method and the key it asked
\* for is not in the snapshot, or names a spec of another type than the
\* method expects.
AbsentOrOtherType(call) ==
    /\ call.api \in ClientApis
    /\ call.evaluated
    /\ call.obs[1] # 0
    /\ \/ call.key \notin DOMAIN heap[call.obs[1]].ABSpecs
       \/ TopSpec(call).Typ # ApiTyp(call.api)[1]

\* C11: for a key that is absent from the snapshot or names a spec of
\* another type, CheckFeatureGate returns (false, nil) and GetFeatureConfig
\* and GetExperiment return the empty result with a nil error; the call
\* looks no other spec up, leaves the sticky store as it is and enqueues no
\* exposure event.
C11_AbsentOrOtherTypeIsEmpty ==
    [][(evalPc = "run" /\ evalPc' = "idle" /\ AbsentOrOtherType(last'))
       => /\ last'.ret = RetOf(FALSE, EmptyResult, NoErr)
          /\ Len(last'.obs) = 1
          /\ ~last'.impress
          /\ stickyData' = stickyData
          /\ calls' = calls
          /\ chanBuf' = chanBuf
          /\ sendq' = sendq]_vars

\* CheckFeatureGate returned for a key that no snapshot holds.
C11_Witness ==
    /\ AbsentOrOtherType(last)
    /\ last.api = "CheckFeatureGate"
    /\ last.key \notin DOMAIN heap[last.obs[1]].ABSpecs

\* C12: an evaluation API call never suspends; the goroutine that calls
\* CheckFeatureGate, GetFeatureConfig or GetExperiment is never parked,
\* whatever the state of the input channel, the loop and the senders.
C12_EvaluationNeverSuspends == pc[ABCaller] # "parked"

\* C13: once Close has signalled shutdown, a sender that is between two
\* attempts of its batch (it has made at least one attempt and has not left
\* the loop of Do) starts no further HTTP attempt.
C13_CloseAbortsRetries ==
    [][\A b \in DOMAIN senders :
          (quit /\ senders[b].pc = "do" /\ senders[b].i >= 1)
              => senders'[b].i = senders[b].i]_vars

\* The messages waiting in the loop's queue, and the bytes of a list of
\* messages.
Pending == IF msgQue.isNil THEN <<>> ELSE msgQue.pending
RECURSIVE BodyBytes(_)
BodyBytes(msgs) ==
    IF msgs = <<>> THEN 0 ELSE Head(msgs).size + BodyBytes(Tail(msgs))
AtThreshold(msgs) ==
    Len(msgs) >= maxBatchSize \/ BodyBytes(msgs) >= maxHTTPBodySize

\* A step in which the loop takes the head of the channel (in its select
\* or in the drain after close).
RecvStep ==
    /\ loopPc \in {"select", "drain"}
    /\ loopBatch.isNil
    /\ chanBuf # <<>>
    /\ \/ chanBuf' = Tail(chanBuf)
       \/ sendq # <<>> /\ chanBuf' = Append(Tail(chanBuf), Head(sendq).msg)
\* A step in which the loop hands a body to the send stage, and that body.
HandStep == loopBatch.isNil /\ (batches' # batches \/ ~loopBatch'.isNil)
Handed == IF batches' # batches THEN batches'[Len(batches')] ELSE loopBatch'.msgs

InChannelOrder(msgs) ==
    /\ \A k \in DOMAIN msgs :
          /\ msgs[k].id \in DOMAIN calls
          /\ calls[msgs[k].id].queued
          /\ calls[msgs[k].id].size = msgs[k].size
    /\ \A k \in 1..(Len(msgs) - 1) :
          /\ msgs[k].id < msgs[k + 1].id
          /\ \A i \in (msgs[k].id + 1)..(msgs[k + 1].id - 1) : ~calls[i].queued

\* C15: within every batch the events are in the order in which the loop
\* took them from the channel, none of them dropped, repeated or changed.
C15_BatchKeepsChannelOrder ==
    /\ \A b \in DOMAIN batches : InChannelOrder(batches[b])
    /\ InChannelOrder(loopBatch.msgs)
    /\ InChannelOrder(Pending)
C15_Witness ==
    \E b \in DOMAIN batches :
        /\ Len(batches[b]) >= 2
        /\ batches[b][2].id > batches[b][1].id + 1


\* The senders that were started and have not yet returned their permit.
InFlight == {b \in DOMAIN senders : senders[b].pc # "done"}

\* C16: the senders in flight never outnumber HTTPConcurrency, and the
\* free permits plus the senders in flight always make HTTPConcurrency.
C16_PermitsPlusInFlight ==
    /\ sem >= 0
    /\ Cardinality(InFlight) <= HTTPConcurrency
    /\ sem + Cardinality(InFlight) = HTTPConcurrency
\* A sender has ended in success and another in failure, a further batch
\* is in flight.
C16_Witness ==
    /\ \E b \in DOMAIN senders :
          senders[b].pc = "done" /\ ~senders[b].err /\ senders[b].code = 200
    /\ \E b \in DOMAIN senders :
          senders[b].pc = "done" /\ (senders[b].err \/ senders[b].code # 200)
    /\ InFlight # {}


\* The number of times the failure callback was invoked with batch b.
FailCalls(b) == Cardinality({k \in DOMAIN failLog : failLog[k] = b})
\* The last attempt of a sender got a response with a 2xx status.
Got2xx(s) == s.i >= 1 /\ ~s.err /\ s.code >= 200 /\ s.code <= 299

\* C17: with a failure callback configured, the callback is invoked exactly
\* once with a batch whose POST ended, after its retries, in a transport
\* error or a status outside 2xx, and never with any other batch; a
\* sender that got a 2xx status makes no further attempt.
C17_CallbackIffNon2xx ==
    /\ [](\A b \in DOMAIN senders :
             /\ senders[b].pc = "done" =>
                   FailCalls(b) = IF hasFailHandler /\ ~Got2xx(senders[b])
                                  THEN 1 ELSE 0
             /\ senders[b].pc # "done" => FailCalls(b) = 0)
    /\ [][\A b \in DOMAIN senders :
             Got2xx(senders[b]) => senders'[b].i = senders[b].i]_vars


(***************************************************************************)
(* Claims about the metadata loader                                        *)
(***************************************************************************)

\* A step in which setStorage replaces an installed storage.
Republish == storagePtr # 0 /\ storagePtr' # storagePtr

\* C18: every time the loader publishes a snapshot over an installed one,
\* the new snapshot equals the one installed just before or carries a
\* different UpdateTime.
C18_PublishedEqualOrOtherTime ==
    [][Republish =>
          \/ heap'[storagePtr'] = heap[storagePtr]
          \/ heap'[storagePtr'].UpdateTime # heap[storagePtr].UpdateTime]_vars

\* C18, amended: a snapshot published over an installed one with the same
\* UpdateTime comes from an envelope whose update flag is set; no fetch
\* with the flag unset publishes it.
C18_SameTimeOnlyByFlag ==
    [][(Republish /\ heap'[storagePtr'].UpdateTime = heap[storagePtr].UpdateTime)
          => ~\E resp \in LoaderResponses :
                 ~LoadMeta(resp).data.Update /\ LoadAttempt(resp)]_vars
\* The installed snapshot has the UpdateTime of the one it replaced and
\* other specs.
C18_Witness ==
    /\ storagePtr = 2
    /\ heap[2].UpdateTime = heap[1].UpdateTime
    /\ heap[2] # heap[1]


\* The answers of the meta endpoint that LoadMeta accepts and whose
\* payloads all decode.
GoodResponses ==
    {resp \in LoaderResponses :
        LoadMeta(resp).err = NoErr /\ BuildStorage(LoadMeta(resp).data).ok}
\* The update flag is set, or the UpdateTime differs from the installed
\* one, or nothing is installed.
MustReplace(data) ==
    \/ data.Update
    \/ storagePtr = 0
    \/ (storagePtr # 0 /\ heap[storagePtr].UpdateTime # data.UpdateTime)

StartStep == loadPc = "new" /\ loadPc' # "new"
\* The loader's data: the storages, the pointer and the outcome of the
\* latest load attempt.
loaderData == <<heap, storagePtr, loadOutcome>>

\* C20: Start makes one load attempt when no storage is installed and none
\* when NewABCore installed a fast-boot storage, and launches the loop in
\* both cases; the loop makes a load attempt on any tick for as long as it
\* runs, it returns only after cancel(), and no load attempt is made before
\* Start or after the loop has returned.
C20_StartLoadsOnceUnlessFastBoot ==
    /\ [][/\ StartStep =>
               /\ loadPc' = "idle"
               /\ IF storagePtr = 0
                  THEN \E resp \in LoaderResponses : LoadAttempt(resp)
                  ELSE UNCHANGED loaderData
          /\ (loaderData' # loaderData /\ ~StartStep) =>
               /\ loadPc \in {"idle", "cancelled", "late"}
               /\ loadPc' \in {"idle", "late"}
               /\ \E resp \in LoaderResponses : LoadAttempt(resp)
          /\ (loadPc' = "stopped" /\ loadPc # "stopped") =>
               loadPc \in {"cancelled", "late"}
          /\ (loadPc' = "cancelled" /\ loadPc # "cancelled") => loadPc = "idle"
         ]_vars
    /\ [](loadPc = "idle" => ENABLED (\E resp \in LoaderResponses :
                                          loadRemoteMeta(resp)))
\* Start has launched the loop over the fast-boot storage without a load
\* attempt.
C20_Witness ==
    /\ loadPc = "idle"
    /\ storagePtr = 1
    /\ heap = FastBoot(GetStorageSnapshot(BuildStorage(DataA).s))
    /\ loadOutcome = NoOutcome

\* C21: after cancel() the loop starts at most one further load attempt:
\* once it has served a tick after the signal, it makes no load attempt
\* any more and returns.
C21_OneLoadAfterCancel ==
    [][loadPc = "late" => UNCHANGED loaderData]_vars


(***************************************************************************)
(* Claims about sticky evaluation                                          *)
(***************************************************************************)

\* A step in which an evaluation call returns.
FinishStep == evalPc = "run" /\ evalPc' = "idle"

\* A completed call that came to evalABSticky for its top-level spec: the
\* spec was found with the type asked for, is sticky and enabled, and the
\* user has the subject of the spec.
StickyCall(call) ==
    /\ FoundSpec(call)
    /\ (Len(call.typ) = 0 \/ TopSpec(call).Typ = call.typ[1])
    /\ TopSpec(call).Sticky
    /\ TopSpec(call).Enabled
    /\ getEvalID(call.user, TopSpec(call)) # ""
\* The key of the sticky store for such a call.
CallStickyKey(call) ==
    StickyKey(TopSpec(call), getEvalID(call.user, TopSpec(call)))
\* The handler answered the read of such a call from store st with "".
StickyMiss(call, st) ==
    /\ StickyCall(call)
    /\ stickyMode \in {"mem", "setfail"}
    /\ StGet(st, CallStickyKey(call)) = EmptyVal

\* C22: a call writes the sticky store exactly when its spec is sticky,
\* the read was a miss, the rules finished without error and chose a
\* variant; it then writes that variant once, under the key of the spec's
\* id and the subject.  In every other case the store stays as it is.  A
\* handler whose write fails shows the same by the write error returned.
C22_StickyWrittenOnceOnMiss ==
    [][FinishStep =>
          /\ IF /\ StickyMiss(last', stickyData)
                /\ stickyMode = "mem"
                /\ last'.err = NoErr
                /\ last'.res.VariantID # Null
             THEN stickyData' = StSet(stickyData, CallStickyKey(last'),
                                      MarshalCache(last'.res.VariantID))
             ELSE stickyData' = stickyData
          /\ last'.err = "sticky write failed" =>
                /\ StickyMiss(last', stickyData)
                /\ last'.res.VariantID # Null
          /\ (/\ StickyMiss(last', stickyData)
              /\ stickyMode = "setfail"
              /\ last'.res.VariantID # Null) =>
                last'.err # NoErr]_vars
\* The latest call computed "holdout" from the rules of cfg (the traffic
\* rule attaches no payload) and the store holds it.
C22_Witness ==
    /\ StickyCall(last)
    /\ last.key = "cfg"
    /\ last.err = NoErr
    /\ last.res.VariantID = "holdout"
    /\ last.res.VariantParamValue = Null
    /\ StGet(stickyData, CallStickyKey(last)) = MarshalCache("holdout")


\* C23: when the sticky write of an evaluation fails, Evaluate returns the
\* write error, the method of the client returns that error to its caller,
\* and no impression is handed to Track.
C23_StickyWriteErrorReturned ==
    [][FinishStep =>
          /\ (/\ last'.api \in ClientApis
              /\ stickyMode = "setfail"
              /\ StickyMiss(last', stickyData)
              /\ last'.res.VariantID # Null) =>
                last'.err # NoErr
          /\ last'.err = "sticky write failed" =>
                /\ last'.ret = RetOf(FALSE, EmptyResult, "sticky write failed")
                /\ ~last'.impress
                /\ calls' = calls
                /\ chanBuf' = chanBuf
                /\ sendq' = sendq]_vars
C23_Witness ==
    /\ last.api = "GetFeatureConfig"
    /\ last.key = "cfg"
    /\ last.err = "sticky write failed"
    /\ last.ret.err = "sticky write failed"
    /\ last.res.VariantID = "A"
    /\ calls = <<>>


\* The handler answered the read of such a call from store st with a value
\* that is not "".
StickyNonEmpty(call, st) ==
    /\ StickyCall(call)
    /\ stickyMode \in {"mem", "setfail"}
    /\ StGet(st, CallStickyKey(call)) # EmptyVal
\* The variant id in the value the read of such a call returned.
CachedVariant(call, st) ==
    UnmarshalCache(StGet(st, CallStickyKey(call))).VariantID
\* The result that carries variant vid of spec with the payload the spec
\* holds for it, and nothing the rules of the spec say.
CachedResult(spec, vid) ==
    [ID |-> spec.ID, Key |-> spec.Key, Typ |-> spec.Typ,
     VariantID |-> vid,
     VariantParamValue |->
        IF vid # Null /\ vid \in DOMAIN spec.VariantValues
        THEN spec.VariantValues[vid] ELSE Null,
     DisableImpress |-> spec.DisableImpress]
\* The call returned the cached variant with the payload of the snapshot
\* it read, read storagePtr once (it visited no dependent spec) and left
\* the store as it was.
ServedFromCache(call, st) ==
    /\ call.err = NoErr
    /\ call.res = CachedResult(TopSpec(call), CachedVariant(call, st))
    /\ Len(call.obs) = 1
    /\ stickyData' = st

\* C24 as stated: whenever the store returns a non-empty value for the
\* spec and the subject, the call is served from the cache.
C24_HitOnNonEmpty ==
    [][FinishStep =>
          (StickyNonEmpty(last', stickyData) => ServedFromCache(last', stickyData))]_vars

\* C24: when the store returns a value that decodes as an abResultCache,
\* the call returns the cached variant id with the payload the current
\* snapshot holds for that variant, evaluates no rule of the spec and does
\* not write the store.
C24_HitOnDecodedValue ==
    [][FinishStep =>
          ((/\ StickyNonEmpty(last', stickyData)
            /\ UnmarshalCache(StGet(stickyData, CallStickyKey(last'))).ok)
             => ServedFromCache(last', stickyData))]_vars

\* A call for cfg was answered with a variant and its payload under the
\* snapshot whose rules choose no variant for cfg.
C24_Witness ==
    /\ StickyCall(last)
    /\ last.key = "cfg"
    /\ TopSpec(last).Rules.GATE[1].Override = Null
    /\ last.err = NoErr
    /\ last.res.VariantID # Null
    /\ last.res.VariantParamValue # Null
    /\ StGet(stickyData, CallStickyKey(last)) = MarshalCache(last.res.VariantID)


\* The entries of the store that hold a variant.
VariantEntries(st) ==
    {e \in st : UnmarshalCache(e.val).ok /\ UnmarshalCache(e.val).VariantID # Null}
\* Two completed calls for the same spec id and the same subject.
SameSpecAndSubject(c1, c2) ==
    /\ TopSpec(c1).ID = TopSpec(c2).ID
    /\ getEvalID(c1.user, TopSpec(c1)) = getEvalID(c2.user, TopSpec(c2))

\* C25: with a handler that keeps what is written, a call for a sticky
\* spec that returns variant v without error leaves v in the store under
\* the spec's id and the subject; no step changes or removes a variant of
\* the store; and every call for an enabled sticky spec whose id and
\* subject have a variant in the store returns that variant without error,
\* whatever the rules of the installed snapshot say.  So two calls in a
\* row for the same spec id and subject, with any snapshot swaps between
\* them, return the same variant.
C25_StickyVariantKept ==
    [][/\ VariantEntries(stickyData) \subseteq stickyData'
       /\ FinishStep =>
             /\ (/\ StickyCall(last') /\ stickyMode = "mem"
                 /\ last'.err = NoErr /\ last'.res.VariantID # Null)
                   => StGet(stickyData', CallStickyKey(last'))
                         = MarshalCache(last'.res.VariantID)
             /\ (/\ StickyNonEmpty(last', stickyData)
                 /\ CachedVariant(last', stickyData) # Null)
                   => /\ last'.err = NoErr
                      /\ last'.res.VariantID = CachedVariant(last', stickyData)
             /\ (/\ StickyCall(last) /\ StickyCall(last') /\ stickyMode = "mem"
                 /\ SameSpecAndSubject(last, last')
                 /\ last.err = NoErr /\ last.res.VariantID # Null)
                   => /\ last'.err = NoErr
                      /\ last'.res.VariantID = last.res.VariantID]_vars

\* A call for cfg under the second snapshot, whose traffic rule passes
\* every subject on to a gate rule without variant, returned a variant.
C25_Witness ==
    /\ StickyCall(last)
    /\ last.key = "cfg"
    /\ last.obs = <<2>>
    /\ TopSpec(last).Rules.TRAFFIC[1].Rollout = 100
    /\ last.err = NoErr
    /\ last.res.VariantID \in {"A", "holdout"}



(***************************************************************************)
(* Claims about the rules                                                  *)
(***************************************************************************)

\* A step in which evalAB was applied at an entry depth.
EvalABStep == last'.api = "evalAB" /\ last' # last
\* The call ran on the snapshot with the cycles for a user who has the
\* subject of the spec.
OnCycleSnapshot(call) ==
    /\ heap[call.obs[1]].UpdateTime = DataCycle.UpdateTime
    /\ getEvalID(call.user, TopSpec(call)) # ""

\* C26: evalAB entered with index maxRecursionDepth or more returns the
\* empty result without error and evaluates no dependent spec; entered
\* below, the dependent evaluations it makes one inside the other end at
\* index maxRecursionDepth at the latest, also on a snapshot whose
\* gate_pass and gate_fail conditions form a cycle.  There the chain ends
\* exactly at the limit, without error: a gate that passes when it fails
\* itself passes at the odd distances from the limit, gates that pass when
\* the other passes never pass.
C26_DepthBounded ==
    [][EvalABStep =>
          /\ last'.index >= maxRecursionDepth =>
                /\ last'.res = EmptyResult
                /\ last'.err = NoErr
                /\ last'.n = 0
          /\ last'.index < maxRecursionDepth =>
                last'.index + last'.n <= maxRecursionDepth
          /\ (last'.index < maxRecursionDepth /\ OnCycleSnapshot(last')) =>
                /\ last'.index + last'.n = maxRecursionDepth
                /\ last'.err = NoErr
                /\ last'.res.VariantID =
                      IF /\ last'.key = "g_loop"
                         /\ (maxRecursionDepth - last'.index) % 2 = 1
                      THEN VariantIDPass ELSE VariantIDFail]_vars

\* evalAB for g_loop on the snapshot with the cycles, entered three below
\* the limit, has returned "pass" after three dependent evaluations.
C26_Witness ==
    /\ last.api = "evalAB"
    /\ last.key = "g_loop"
    /\ OnCycleSnapshot(last)
    /\ last.index = maxRecursionDepth - 3
    /\ last.n = 3
    /\ last.err = NoErr
    /\ last.res.VariantID = VariantIDPass


\* A step in which evalRule was applied.
EvalRuleStep == last'.api = "evalRule" /\ last' # last
\* Every condition of the rule of the call, evaluated on its own, holds
\* without error.
AllConditionsPass(call) ==
    \A i \in DOMAIN call.rule.Conditions :
        LET r == evalCond(call.obs, call.user, call.rule.Conditions[i],
                          call.evalID, 1, [n |-> 0, st |-> stickyData])
        IN r.ok /\ r.err = NoErr

\* C27: a rule with rollout 0 does not pass, for any user and subject:
\* evalRule returns false without error and without evaluating a
\* condition (it reports no condition's error and asks for no other
\* spec).  A rule with rollout 100 whose conditions all hold passes for
\* every subject, whatever the hash of the subject and the salt.
C27_RolloutZeroAndFull ==
    [][EvalRuleStep =>
          /\ last'.rule.Rollout = 0 =>
                /\ ~last'.ret.b
                /\ last'.err = NoErr
                /\ last'.n = 0
          /\ (last'.rule.Rollout = 100 /\ AllConditionsPass(last')) =>
                /\ last'.ret.b
                /\ last'.err = NoErr]_vars

\* evalRule passed a rule with rollout 100 and a gate_pass condition for
\* a subject whose hash is outside a rollout of 50.
C27_Witness ==
    /\ last.api = "evalRule"
    /\ last.rule.Rollout = 100
    /\ last.rule.Conditions = <<Cond("", "g_base", "GATE_PASS", NilV)>>
    /\ hashUint64(last.evalID, last.rule.Salt) % 10000 >= 50 * 100
    /\ last.n = 1
    /\ last.ret.b


(***************************************************************************)
(* Claims about the exposure events                                        *)
(***************************************************************************)

\* The number of exposure events a step hands to Track.
NewImpressions ==
    Cardinality({i \in DOMAIN calls' : calls'[i].event = ImpressEvent.event})
      - Impressions
\* A step in which a method of the client returns before it evaluates.
EarlyReturnStep == last' # last /\ ~last'.evaluated
\* The cases in which a completed call has nothing to expose: an error,
\* a key the snapshot does not hold or holds with another type, a spec
\* that is disabled or has disableImpress set, a user without the subject
\* of the spec.
NothingToExpose(call) ==
    \/ call.err # NoErr
    \/ ~FoundSpec(call)
    \/ /\ FoundSpec(call)
       /\ \/ Len(call.typ) > 0 /\ TopSpec(call).Typ # call.typ[1]
          \/ ~TopSpec(call).Enabled
          \/ TopSpec(call).DisableImpress
          \/ getEvalID(call.user, TopSpec(call)) = ""

\* C28: only the return of CheckFeatureGate, GetFeatureConfig or
\* GetExperiment hands an exposure event to Track, and it hands over at
\* most one, for the spec the caller asked for, however many dependent
\* specs the call evaluated; the event is in the channel when the call
\* returns.  The call hands over none when the evaluation returned an
\* error, when the result has disableImpress set or an empty key (missing
\* key, other type, disabled spec, no subject), or when the method
\* returned before it evaluated.
C28_OneExposurePerCall ==
    [][/\ NewImpressions \in {0, 1}
       /\ NewImpressions = 1 =>
             /\ FinishStep
             /\ last'.api \in ClientApis
             /\ last'.impress
             /\ last'.err = NoErr
             /\ ~last'.res.DisableImpress
             /\ last'.res.Key = last'.key
             /\ pc'[ABCaller] = "idle" =>
                   \/ calls'[Len(calls')].queued
                   \/ chanClosed
       /\ (FinishStep /\ NothingToExpose(last')) =>
             /\ ~last'.impress
             /\ calls' = calls /\ chanBuf' = chanBuf /\ sendq' = sendq
       /\ (FinishStep /\ (last'.res.DisableImpress \/ last'.res.Key = "")) =>
             calls' = calls
       /\ EarlyReturnStep => calls' = calls]_vars

\* A call for g_dep, which evaluated g_base for its gate_pass condition,
\* has returned and the one event since construction is its exposure, in
\* the channel or taken from it by the loop.
C28_Witness ==
    /\ last.api = "CheckFeatureGate"
    /\ last.key = "g_dep"
    /\ Len(last.obs) = 2
    /\ last.impress
    /\ Len(calls) = 1
    /\ calls[1].event = ImpressEvent.event
    /\ calls[1].queued


\* What a method of the client returns for the result res of an
\* evaluation without error.
ReturnFor(api, res) ==
    IF api = "CheckFeatureGate"
    THEN RetOf(res.VariantID # Null /\ res.VariantID = VariantIDPass,
               EmptyResult, NoErr)
    ELSE RetOf(FALSE, res, NoErr)
\* The Track call of the exposure of the latest call did not put the
\* event in the channel: the channel was closed or full.
ExposureNotQueued ==
    /\ last.impress
    /\ calls # <<>>
    /\ calls[Len(calls)].event = ImpressEvent.event
    /\ ~calls[Len(calls)].queued

\* C29: whatever becomes of the exposure event (the channel closed by
\* Close, the channel full, Track returning an error), the method returns
\* what Evaluate returned with a nil error; a caller parked on the full
\* channel is released by the loop's receive or by the close of the
\* channel, whose panic Track recovers, and what the call returns stays
\* the same.
C29_ExposureFailureNotReturned ==
    [][/\ (FinishStep /\ last'.api \in ClientApis /\ EvalRun.err = NoErr) =>
             /\ last'.res = EvalRun.res
             /\ last'.err = NoErr
             /\ last'.ret = ReturnFor(last'.api, EvalRun.res)
       /\ (pc[ABCaller] = "parked" /\ pc'[ABCaller] # "parked") =>
             /\ pc'[ABCaller] = "idle"
             /\ last' = last
             /\ \/ chanClosed' /\ ~chanClosed
                \/ Len(chanBuf') = Len(chanBuf) /\ chanBuf' # chanBuf
       /\ pc'[ABCaller] \in {"idle", "parked"}]_vars

\* A call for cfg made after Close returned has returned the variant with
\* a nil error; its exposure met the closed channel.
C29_Witness ==
    /\ ExposureNotQueued
    /\ calls[Len(calls)].afterClose
    /\ chanClosed
    /\ last.key = "cfg"
    /\ last.res.VariantID # Null
    /\ last.ret = ReturnFor(last.api, last.res)


(***************************************************************************)
(* Claims about the exported snapshot                                      *)
(***************************************************************************)

\* A step in which a new core is booted from the exported snapshot.
RebootStep == loadPc # "new" /\ loadPc' = "new"

\* C30: the snapshot a new core installs from the bytes exported by
\* GetStorageSnapshot has the spec keys, the spec types, the variant
\* values of every variant and the updateTime of the exported snapshot.
C30_ExportBootsSameSnapshot ==
    [][RebootStep =>
          /\ storagePtr' # 0
          /\ heap'[storagePtr'].UpdateTime = heap[storagePtr].UpdateTime
          /\ DOMAIN heap'[storagePtr'].ABSpecs = DOMAIN heap[storagePtr].ABSpecs
          /\ \A k \in DOMAIN heap[storagePtr].ABSpecs :
                /\ heap'[storagePtr'].ABSpecs[k].Typ
                      = heap[storagePtr].ABSpecs[k].Typ
                /\ heap'[storagePtr'].ABSpecs[k].VariantValues
                      = heap[storagePtr].ABSpecs[k].VariantValues]_vars


(***************************************************************************)
(* The rule classes                                                        *)
(***************************************************************************)

IsPro == Cond("PROPS", "plan", "EQ", StrV("pro"))
Frobnicate == Cond("PROPS", "plan", "frobnicate", NilV)
AsksBase == Cond("", "g_base", "GATE_PASS", NilV)
LowHalf == Cond("", "s2", "bucket_set", StrV("lowhalf"))

\* The rule lists evalABRules is applied to, by class.  OVERRIDE: none; a
\* rule without override before two for the users on plan "pro"; a rule
\* that fails with an error before one that passes.
OverrideLists ==
    {<<>>,
     <<RuleOf("s1", 100, <<Public>>, Null),
       RuleOf("s1", 100, <<IsPro>>, "v1"),
       RuleOf("s1", 100, <<IsPro>>, "v2")>>,
     <<RuleOf("s1", 100, <<Frobnicate>>, "v1"),
       RuleOf("s1", 100, <<Public>>, "v1")>>}
\* TRAFFIC: none; two rules with different overrides, the first for the
\* users on plan "pro" and the second for nobody; a rule without override
\* that asks for g_base.
TrafficLists ==
    {<<>>,
     <<RuleOf("s1", 100, <<IsPro>>, "holdout"),
       RuleOf("s1", 0, <<Frobnicate>>, "h2")>>,
     <<RuleOf("s1", 100, <<AsksBase>>, Null)>>}
\* GATE: a rule that names a variant; a rule that asks for g_base; a rule
\* that fails with an error.
GateLists ==
    {<<RuleOf("s1", 100, <<Public>>, "A")>>,
     <<RuleOf("s1", 100, <<AsksBase>>, Null)>>,
     <<RuleOf("s1", 100, <<Frobnicate>>, Null)>>}
\* GROUP: two groups by bucket; a group that asks for g_base before one
\* that fails with an error.
GroupLists ==
    {<<RuleOf("s1", 100, <<LowHalf>>, "A"),
       RuleOf("s1", 100, <<Public>>, "B")>>,
     <<RuleOf("s1", 100, <<AsksBase>>, "B"),
       RuleOf("s1", 100, <<Frobnicate>>, "A")>>}
ABTyps == {ABTypGate, ABTypConfig, ABTypExp}

\* The specs evalABRules is applied to: every type with every combination
\* of the rule lists; variants v1 and A have a payload.
ClassSpecs ==
    {[SpecOf(8, "probe", typ, "anon_id") EXCEPT
         !.Rules = [OVERRIDE |-> o, TRAFFIC |-> t, GATE |-> g, GROUP |-> e],
         !.VariantValues = [v1 |-> "map[color:blue]", A |-> "map[color:red]"]] :
        typ \in ABTyps, o \in OverrideLists, t \in TrafficLists,
        g \in GateLists, e \in GroupLists}

\* evalABRules(user, spec, evalID, index, result) as evalAB calls it for a
\* spec that is not sticky: evalID is the anon_id of the user and is not
\* empty, result is seeded from the spec.  n is the number of getABSpec
\* calls the rules made.
EvalABRulesOf(spec) ==
    /\ evalPc = "idle"
    /\ storagePtr # 0
    /\ getEvalID(caller.user, spec) # ""
    /\ LET r == evalABRules(<<storagePtr>>, caller.user, spec,
                            getEvalID(caller.user, spec), 1, Seeded(spec),
                            [n |-> 0, st |-> stickyData])
       IN last' = [api |-> "evalABRules", typ |-> <<>>, user |-> caller.user,
                   key |-> spec.Key, evaluated |-> TRUE,
                   obs |-> <<storagePtr>>, res |-> r.res, err |-> r.err,
                   ret |-> RetOf(r.ok, r.res, r.err), impress |-> FALSE,
                   spec |-> spec, n |-> r.c.n]
    /\ UNCHANGED <<heap, storagePtr, loadPc, loadOutcome, stickyMode,
                   stickyData, evalPc, evalReq, evalObs, caller>>
    /\ UNCHANGED pipeVars

\* NewABCore without a StickyHandler, and a caller.
InitClasses ==
    /\ InitCycle
    /\ caller.key = "g_base"

NextClasses ==
    \/ \E spec \in ClassSpecs : EvalABRulesOf(spec)
    \/ loadRemoteMeta(MetaA)

\* evalABRules on snapshot A.
SpecClasses == InitClasses /\ [][NextClasses]_vars


\* The conditions evalCond is applied to: gate_pass and gate_fail on the
\* specs of the snapshots and on a key no snapshot holds, and conditions of
\* every field class with operators the evaluator defines and operators
\* it does not.
GateFields == {"g_base", "g_dep", "g_ovr", "cfg", "exp", "no_such_key"}
GateConds == {Cond("", field, op, NilV) :
                 field \in GateFields, op \in {"GATE_PASS", "GATE_FAIL"}}
OperatorConds ==
    {Cond(class, field, op, StrV("pro")) :
        class \in {"COMMON", "FFUSER", "PROPS", "TARGET", ""},
        field \in {"public", "plan"},
        op \in {"EQ", "frobnicate", "version_like", "one_of_these"}}
ProbeConds == GateConds \cup OperatorConds

\* The values of index evalCond is called with: the first level, and the
\* last two levels before the limit of evalAB.
CondDepths == {1, maxRecursionDepth - 1, maxRecursionDepth}

\* evalCond(user, cond, evalID, index) as evalRule calls it: evalID is the
\* anon_id of the user and is not empty.  n is the number of getABSpec
\* calls made below it.
EvalCondOf(cond, index) ==
    /\ evalPc = "idle"
    /\ storagePtr # 0
    /\ caller.user.AnonID # ""
    /\ LET r == evalCond(<<storagePtr>>, caller.user, cond,
                         caller.user.AnonID, index,
                         [n |-> 0, st |-> stickyData])
       IN last' = [api |-> "evalCond", typ |-> <<>>, user |-> caller.user,
                   key |-> cond.Field, evaluated |-> TRUE,
                   obs |-> <<storagePtr>>, res |-> r.res, err |-> r.err,
                   ret |-> RetOf(r.ok, r.res, r.err), impress |-> FALSE,
                   cond |-> cond, index |-> index, n |-> r.c.n]
    /\ UNCHANGED <<heap, storagePtr, loadPc, loadOutcome, stickyMode,
                   stickyData, evalPc, evalReq, evalObs, caller>>
    /\ UNCHANGED pipeVars

NextConds ==
    \/ \E cond \in ProbeConds, index \in CondDepths : EvalCondOf(cond, index)
    \/ \E resp \in RuleResponses : loadRemoteMeta(resp)

\* evalCond on the snapshots an ABCore without a StickyHandler installs.
SpecConds == InitClasses /\ [][NextConds]_vars

(***************************************************************************)
(* Claims about the rule classes                                           *)
(***************************************************************************)

\* A step in which evalABRules was applied.
EvalRulesStep == last'.api = "evalABRules" /\ last' # last
\* What evalRule returns for rule i of a class of the spec of the call,
\* evaluated on its own.
RuleAlone(call, class, i) ==
    evalRule(call.obs, call.user, call.spec.Rules[class][i],
             getEvalID(call.user, call.spec), 1, [n |-> 0, st |-> stickyData])
\* Rule i of the OVERRIDE class passes for the user of the call and has an
\* override.
OverridePasses(call, i) ==
    /\ call.spec.Rules.OVERRIDE[i].Override # Null
    /\ RuleAlone(call, "OVERRIDE", i).err = NoErr
    /\ RuleAlone(call, "OVERRIDE", i).ok
\* Rule i is the first OVERRIDE rule in declaration order that passes with
\* an override, and the rules before it were evaluated without error.
OverrideDecidesAt(call, i) ==
    /\ OverridePasses(call, i)
    /\ \A j \in 1..(i - 1) :
          /\ RuleAlone(call, "OVERRIDE", j).err = NoErr
          /\ ~OverridePasses(call, j)

\* C31: when an OVERRIDE rule passes for the user and has an override, the
\* result of evalABRules carries the override of the first such rule in
\* declaration order as VariantID, with the payload the spec holds for
\* that variant (none when it holds none), and nothing of the TRAFFIC,
\* GATE and GROUP rules: no error of theirs, no variant of theirs, no
\* getABSpec call for their gate conditions, no "pass"/"fail" of a gate.
C31_FirstOverrideDecides ==
    [][EvalRulesStep =>
          \A i \in DOMAIN last'.spec.Rules.OVERRIDE :
              OverrideDecidesAt(last', i) =>
                  /\ last'.err = NoErr
                  /\ last'.res =
                        [Seeded(last'.spec) EXCEPT
                            !.VariantID = last'.spec.Rules.OVERRIDE[i].Override,
                            !.VariantParamValue =
                                VariantValue(last'.spec,
                                    last'.spec.Rules.OVERRIDE[i].Override)]
                  /\ last'.n = 0]_vars

\* evalABRules returned "v1" with its payload for a user on plan "pro":
\* the second OVERRIDE rule of three decided, before a later OVERRIDE rule
\* with another override, a TRAFFIC rule with a holdout for that user, a
\* GATE rule that fails with an error and a GROUP rule that asks for
\* another spec.
C31_Witness ==
    /\ last.api = "evalABRules"
    /\ last.user = u1
    /\ Len(last.spec.Rules.OVERRIDE) = 3
    /\ OverrideDecidesAt(last, 2)
    /\ OverridePasses(last, 3)
    /\ Len(last.spec.Rules.TRAFFIC) = 2
    /\ last.spec.Rules.GATE[1].Conditions = <<Frobnicate>>
    /\ last.spec.Rules.GROUP[1].Conditions = <<AsksBase>>
    /\ last.res.VariantID = "v1"
    /\ last.res.VariantParamValue = "map[color:blue]"
    /\ last.err = NoErr


\* No OVERRIDE rule of the spec of the call decides: each is evaluated
\* without error and does not pass or has no override.
NoOverrideDecides(call) ==
    \A i \in DOMAIN call.spec.Rules.OVERRIDE :
        /\ RuleAlone(call, "OVERRIDE", i).err = NoErr
        /\ ~OverridePasses(call, i)
\* Rule i is the first TRAFFIC rule in declaration order that does not
\* pass: the rules before it pass, and it is evaluated without error.
TrafficFailsAt(call, i) ==
    /\ RuleAlone(call, "TRAFFIC", i).err = NoErr
    /\ ~RuleAlone(call, "TRAFFIC", i).ok
    /\ \A j \in 1..(i - 1) :
          /\ RuleAlone(call, "TRAFFIC", j).err = NoErr
          /\ RuleAlone(call, "TRAFFIC", j).ok
\* The getABSpec calls made by the rules 1..i of a class.
RECURSIVE LoadsUpTo(_, _, _)
LoadsUpTo(call, class, i) ==
    IF i = 0 THEN 0
    ELSE RuleAlone(call, class, i).c.n + LoadsUpTo(call, class, i - 1)
\* The VariantID a spec ends with when the rules chose none and no GATE
\* rule passed: "fail" for a Gate, none otherwise.
UnsetVariant(spec) == IF spec.Typ = ABTypGate THEN VariantIDFail ELSE Null

\* C32: when no OVERRIDE rule decides, the first TRAFFIC rule in
\* declaration order that does not pass ends the rule evaluation.  The
\* result carries that rule's override as VariantID, without payload, when
\* it has one; otherwise the rules leave VariantID unset (a Gate then
\* reads "fail").  No GATE or GROUP rule is evaluated: the call returns no
\* error and no variant of theirs and makes no getABSpec call beyond those
\* of the TRAFFIC rules up to the deciding one.
C32_FirstFailedTrafficDecides ==
    [][EvalRulesStep =>
          \A i \in DOMAIN last'.spec.Rules.TRAFFIC :
              (NoOverrideDecides(last') /\ TrafficFailsAt(last', i)) =>
                  /\ last'.err = NoErr
                  /\ last'.res =
                        [Seeded(last'.spec) EXCEPT
                            !.VariantID =
                                IF last'.spec.Rules.TRAFFIC[i].Override # Null
                                THEN last'.spec.Rules.TRAFFIC[i].Override
                                ELSE UnsetVariant(last'.spec)]
                  /\ last'.n = LoadsUpTo(last', "TRAFFIC", i)]_vars

\* evalABRules returned "h2" for an Experiment without OVERRIDE rules: the
\* user passed the first TRAFFIC rule, which has another override, and
\* failed the second, before a GATE rule that names variant "A".
C32_Witness ==
    /\ last.api = "evalABRules"
    /\ last.spec.Typ = ABTypExp
    /\ last.spec.Rules.OVERRIDE = <<>>
    /\ Len(last.spec.Rules.TRAFFIC) = 2
    /\ TrafficFailsAt(last, 2)
    /\ last.spec.Rules.TRAFFIC[1].Override = "holdout"
    /\ last.spec.Rules.GATE[1].Override = "A"
    /\ last.res.VariantID = "h2"
    /\ last.err = NoErr


\* The rule evaluation of the call reaches the GATE class: no OVERRIDE
\* rule decides and every TRAFFIC rule passes.
ReachesGates(call) ==
    /\ NoOverrideDecides(call)
    /\ \A i \in DOMAIN call.spec.Rules.TRAFFIC :
          /\ RuleAlone(call, "TRAFFIC", i).err = NoErr
          /\ RuleAlone(call, "TRAFFIC", i).ok
\* Rule i is the first GATE rule in declaration order that passes, and the
\* rules before it were evaluated without error.
GatePassesAt(call, i) ==
    /\ RuleAlone(call, "GATE", i).err = NoErr
    /\ RuleAlone(call, "GATE", i).ok
    /\ \A j \in 1..(i - 1) :
          /\ RuleAlone(call, "GATE", j).err = NoErr
          /\ ~RuleAlone(call, "GATE", j).ok
\* The GATE class of the call ends with pass = false and without error.
GateClassFails(call) ==
    /\ ReachesGates(call)
    /\ \A i \in DOMAIN call.spec.Rules.GATE :
          /\ RuleAlone(call, "GATE", i).err = NoErr
          /\ ~RuleAlone(call, "GATE", i).ok
\* What evalABRules returns for the spec of the call without its GROUP
\* rules.
WithoutGroups(call) ==
    evalABRules(call.obs, call.user,
                [call.spec EXCEPT !.Rules.GROUP = <<>>],
                getEvalID(call.user, call.spec), 1, Seeded(call.spec),
                [n |-> 0, st |-> stickyData])
\* The GROUP rules of the call were evaluated.  Every GROUP list of
\* ClassSpecs leaves a trace when it is evaluated: a variant, an error or
\* a getABSpec call.
GroupEvaluated(call) ==
    \/ call.res # WithoutGroups(call).res
    \/ call.err # WithoutGroups(call).err
    \/ call.n # WithoutGroups(call).c.n

\* C33: evalABRules evaluates the GROUP rules exactly when the spec is an
\* Experiment, a GATE rule passed and that rule set no VariantID.  An
\* Experiment whose GATE class ends with pass = false returns no variant
\* and no error; the override of the GATE rule that passed is the
\* VariantID of the result, whatever the GROUP rules are; a Gate and a
\* Config never evaluate a GROUP rule.
C33_GroupOnlyForOpenExperiment ==
    [][EvalRulesStep =>
          /\ GroupEvaluated(last') <=>
                /\ last'.spec.Typ = ABTypExp
                /\ ReachesGates(last')
                /\ \E i \in DOMAIN last'.spec.Rules.GATE :
                      /\ GatePassesAt(last', i)
                      /\ last'.spec.Rules.GATE[i].Override = Null
          /\ (last'.spec.Typ = ABTypExp /\ GateClassFails(last')) =>
                /\ last'.res.VariantID = Null
                /\ last'.err = NoErr
          /\ \A i \in DOMAIN last'.spec.Rules.GATE :
                (/\ ReachesGates(last')
                 /\ GatePassesAt(last', i)
                 /\ last'.spec.Rules.GATE[i].Override # Null) =>
                    /\ last'.res.VariantID = last'.spec.Rules.GATE[i].Override
                    /\ last'.err = NoErr
          /\ last'.spec.Typ # ABTypExp => ~GroupEvaluated(last')]_vars

\* evalABRules returned group "B" for an Experiment: the GATE rule asked
\* for g_base, passed and named no variant, and the first GROUP rule asked
\* for g_base again.
C33_Witness ==
    /\ last.api = "evalABRules"
    /\ last.spec.Typ = ABTypExp
    /\ ReachesGates(last)
    /\ last.spec.Rules.GATE[1].Conditions = <<AsksBase>>
    /\ GatePassesAt(last, 1)
    /\ last.spec.Rules.GROUP[1].Conditions = <<AsksBase>>
    /\ GroupEvaluated(last)
    /\ last.res.VariantID = "B"
    /\ last.n >= 2


(***************************************************************************)
(* Claims about the conditions                                             *)
(***************************************************************************)

\* A step in which evalCond was applied.
EvalCondStep == last'.api = "evalCond" /\ last' # last
\* The condition of the call is a gate_pass or a gate_fail.
IsGateCond(call) == ToLower(call.cond.Opt) \in {"gate_pass", "gate_fail"}
\* What evalCond returns for the same user, snapshot and depth when the
\* gate_pass of the call is a gate_fail and the gate_fail a gate_pass.
OtherGateCond(call) ==
    evalCond(call.obs, call.user,
             [call.cond EXCEPT !.Opt = IF ToLower(call.cond.Opt) = "gate_pass"
                                       THEN "GATE_FAIL" ELSE "GATE_PASS"],
             call.user.AnonID, call.index, [n |-> 0, st |-> stickyData])
\* The dependent spec of the call is in the snapshot the call read.
DependentExists(call) ==
    call.cond.Field \in DOMAIN heap[call.obs[1]].ABSpecs

\* C34: for one user, snapshot and depth, gate_fail on a spec of the
\* snapshot holds exactly when gate_pass on it does not, when the
\* dependent spec is evaluated without error; when its evaluation fails,
\* both conditions return that error.  On a key the snapshot does not
\* hold, gate_pass and gate_fail are both false, without error.
C34_GateFailNegatesGatePass ==
    [][(EvalCondStep /\ IsGateCond(last')) =>
          /\ DependentExists(last') =>
                /\ last'.err = OtherGateCond(last').err
                /\ last'.err = NoErr =>
                      last'.ret.b = ~OtherGateCond(last').ok
          /\ ~DependentExists(last') =>
                /\ ~last'.ret.b
                /\ last'.err = NoErr
                /\ ~OtherGateCond(last').ok
                /\ OtherGateCond(last').err = NoErr]_vars

\* gate_fail on g_dep was false for a user on plan "pro" on a snapshot
\* where g_dep passes such users, after getABSpec calls for g_dep and
\* g_base; gate_pass is true for that user.
C34_Witness ==
    /\ last.api = "evalCond"
    /\ last.cond = Cond("", "g_dep", "GATE_FAIL", NilV)
    /\ last.user = u1
    /\ last.index = 1
    /\ last.n = 2
    /\ ~last.ret.b
    /\ last.err = NoErr
    /\ OtherGateCond(last).ok


\* The operators the condition evaluator defines.
DefinedOperators ==
    {"gt", "gte", "lt", "lte",
     "version_gt", "version_gte", "version_lt", "version_lte", "version_eq",
     "version_neq",
     "any_of_case_sensitive", "any_of_case_insensitive",
     "none_of_case_sensitive", "none_of_case_insensitive",
     "is_null", "is_not_null", "is_true", "is_false", "eq", "neq",
     "before", "after", "bucket_set", "gate_pass", "gate_fail"}

\* C35: evalCond returns an error for every condition whose operator is
\* not one of the defined operators, whatever the field class and the
\* field of the condition.
C35_UnknownOperatorErrors ==
    [][EvalCondStep =>
          (ToLower(last'.cond.Opt) \notin DefinedOperators =>
              last'.err # NoErr)]_vars


(***************************************************************************)
(* Claims about the subject of a spec                                      *)
(***************************************************************************)

\* The user has no value for the subject of the spec: the id that
\* spec.SubjectID selects is empty, or the user has no AB property of
\* that name.
SubjectEmpty(user, spec) ==
    IF EqualFold(spec.SubjectID, "anon_id") THEN user.AnonID = ""
    ELSE IF EqualFold(spec.SubjectID, "login_id") THEN user.LoginID = ""
    ELSE spec.SubjectID \notin DOMAIN user.ABUserProperties

\* C36: an evaluation of an enabled spec for a user without a value for
\* the subject of the spec returns the empty result and no error, and
\* leaves the sticky store as it is.
C36_EmptySubjectEmptyResult ==
    [][(/\ FinishStep
        /\ last'.evaluated
        /\ FoundSpec(last')
        /\ (Len(last'.typ) = 0 \/ TopSpec(last').Typ = last'.typ[1])
        /\ TopSpec(last').Enabled
        /\ SubjectEmpty(last'.user, TopSpec(last'))) =>
          /\ last'.res = EmptyResult
          /\ last'.err = NoErr
          /\ stickyData' = stickyData]_vars


(***************************************************************************)
(* Claims about the client before the first snapshot                       *)
(***************************************************************************)

\* A step in which a method of the client returns.
ClientReturnStep == last' # last /\ last'.api \in ClientApis

\* C37: while storagePtr is nil every method of the client returns
\* ErrABNotReady and the empty result, without an evaluation, with the
\* sticky store as it was and without a Track call for an exposure.  A
\* storagePtr that is set stays set under every later load attempt, and
\* from then on no method returns ErrABNotReady.
C37_NotReadyUntilFirstSnapshot ==
    [][/\ (ClientReturnStep /\ storagePtr = 0) =>
              /\ last'.ret.err = "ErrABNotReady"
              /\ last'.ret.res = EmptyResult
              /\ ~last'.ret.b
              /\ ~last'.evaluated
              /\ stickyData' = stickyData
              /\ calls' = calls
              /\ chanBuf' = chanBuf
       /\ storagePtr # 0 => storagePtr' # 0
       /\ (ClientReturnStep /\ storagePtr # 0) =>
              last'.ret.err # "ErrABNotReady"]_vars

\* A method of the client returned an evaluated result on the installed
\* snapshot after a later load attempt had failed.
C37_Witness ==
    /\ storagePtr # 0
    /\ loadOutcome \in {"LoadMeta failed", "VariantPayload error"}
    /\ last.api \in ClientApis
    /\ last.evaluated
    /\ last.obs = <<storagePtr>>
    /\ last.ret.err = NoErr


(***************************************************************************)
(* httpClient.Do under a parent context                                    *)
(***************************************************************************)

\* The requests of the scenario.
MaxRequests == 2

\* What one attempt of Do ends in: the outcomes of a POST, and a response
\* with status 200 whose body cannot be read (do returns the status
\* together with the error of io.ReadAll).
DoOutcomes == HTTPOutcomes \cup {"readerr200"}

\* httpClient.Do is called for a request, with a parent context that has
\* ended or not.  ctx is the state of the parent context, seen the value of
\* ctx.Err() != nil the loop read after its last failed attempt.
DoCall(ctxDone) ==
    /\ Len(senders) < MaxRequests
    /\ \A b \in DOMAIN senders : senders[b].pc = "after"
    /\ senders' = Append(senders, [pc |-> "do", i |-> 0, code |-> 0,
                                   err |-> FALSE, ctx |-> ctxDone,
                                   seen |-> FALSE])
    /\ UNCHANGED <<quit, chanBuf, chanClosed, sendq, msgQue, loopPc,
                   loopBatch, sem, wg, batches, failLog, hasFailHandler, pc,
                   calls, closePc>>
    /\ UNCHANGED abVars

\* The parent context of request b ends while Do is running.
CtxCancel(b) ==
    /\ b \in DOMAIN senders
    /\ senders[b].pc = "do"
    /\ ~senders[b].ctx
    /\ senders' = [senders EXCEPT ![b].ctx = TRUE]
    /\ UNCHANGED <<quit, chanBuf, chanClosed, sendq, msgQue, loopPc,
                   loopBatch, sem, wg, batches, failLog, hasFailHandler, pc,
                   calls, closePc>>
    /\ UNCHANGED abVars

\* One iteration of the loop of httpClient.Do for request b: YieldTick
\* before a retry (it returns on its tick or on ctx.Done()), the attempt,
\* and the tests after it.  An attempt made under a context that has
\* ended fails.
DoAttempt(b, outcome) ==
    /\ b \in DOMAIN senders
    /\ senders[b].pc = "do"
    /\ senders[b].ctx => outcome = "err"
    /\ LET s    == senders[b]
           code == OutcomeCode(outcome)
           err  == OutcomeErr(outcome)
       IN senders' = [senders EXCEPT ![b] =
              [pc |-> IF DoStops(s.i, code, err, s.ctx) THEN "after" ELSE "do",
               i |-> s.i + 1, code |-> code, err |-> err, ctx |-> s.ctx,
               seen |-> err /\ s.ctx]]
    /\ UNCHANGED <<quit, chanBuf, chanClosed, sendq, msgQue, loopPc,
                   loopBatch, sem, wg, batches, failLog, hasFailHandler, pc,
                   calls, closePc>>
    /\ UNCHANGED abVars

NextDo ==
    \/ \E ctxDone \in BOOLEAN : DoCall(ctxDone)
    \/ \E b \in 1..MaxRequests : CtxCancel(b)
    \/ \E b \in 1..MaxRequests, o \in DoOutcomes : DoAttempt(b, o)

\* Requests made one after the other with httpClient.Do.
SpecDo == InitClasses /\ [][NextDo]_vars

(***************************************************************************)
(* Claims about httpClient.Do                                              *)
(***************************************************************************)

\* A step in which Do makes an attempt for request b.
AttemptStep(b) ==
    /\ b \in DOMAIN senders
    /\ b \in DOMAIN senders'
    /\ senders'[b].i = senders[b].i + 1

\* C39: Do makes at most opts.Retry + 1 attempts for a request; it makes
\* no attempt after an attempt that returned status 200, and none after an
\* attempt that failed while the parent context had ended.
C39_AttemptsBounded ==
    [][\A b \in 1..MaxRequests :
          AttemptStep(b) =>
              /\ senders'[b].i <= HTTPRetry + 1
              /\ ~(senders[b].i > 0 /\ senders[b].code = 200)
              /\ ~(senders[b].i > 0 /\ senders[b].err /\ senders[b].seen)]_vars


\* C39, amended: Do makes at most opts.Retry + 1 attempts for a request;
\* it makes no attempt after an attempt that returned status 200 without
\* an error, and none after an attempt that failed while the parent
\* context had ended.  An attempt that returns an error is retried
\* whatever its status.
C39_AttemptsBoundedOnSuccess ==
    [][\A b \in 1..MaxRequests :
          AttemptStep(b) =>
              /\ senders'[b].i <= HTTPRetry + 1
              /\ ~(senders[b].i > 0 /\ senders[b].code = 200
                                    /\ ~senders[b].err)
              /\ ~(senders[b].i > 0 /\ senders[b].err /\ senders[b].seen)]_vars

\* Two requests ended before their last attempt: the first after an
\* attempt that returned status 200, the second after an attempt that
\* failed when its parent context had ended.
C39_Witness ==
    /\ Len(senders) = 2
    /\ senders[1].pc = "after"
    /\ senders[1].i < HTTPRetry + 1
    /\ senders[1].code = 200
    /\ ~senders[1].err
    /\ senders[2].pc = "after"
    /\ senders[2].i < HTTPRetry + 1
    /\ senders[2].err
    /\ senders[2].seen


(***************************************************************************)
(* Claims about the shutdown                                               *)
(***************************************************************************)

\* C38: once Close has been called it returns, whatever the client was
\* doing: senders in flight, the loop waiting for a sender permit,
\* producers parked on the full channel.  A producer parked in Track when
\* Close is called does not stay parked.
C38_CloseReturns ==
    /\ (closePc # "idle") ~> (closePc = "returned")
    /\ \A p \in Producers :
          (closePc # "idle" /\ pc[p] = "parked") ~> (pc[p] # "parked")

\* Close returned after the loader loop had ended, a sender had sent a
\* batch, and a producer that had found the channel full was released
\* with the recovered panic of its send.
C38_Witness ==
    /\ closePc = "returned"
    /\ loadPc = "stopped"
    /\ \E b \in DOMAIN senders : senders[b].pc = "done"
    /\ \E i \in DOMAIN calls :
          /\ calls[i].full
          /\ calls[i].status = "returned"
          /\ calls[i].ret = TrackRecovered


(***************************************************************************)
(* Readers of a published snapshot                                         *)
(***************************************************************************)

\* ABCore.GetABSpecs: copies of the specs of the installed storage and its
\* UpdateTime; nothing when no storage is installed.
GetABSpecs(s) ==
    [specs |-> {s.ABSpecs[k] : k \in DOMAIN s.ABSpecs}, time |-> s.UpdateTime]

ExportApis == {"GetABSpecs", "GetStorageSnapshot"}

\* An export call: one load of storagePtr, then a copy or the JSON of the
\* storage it points to.
ExportCall(api) ==
    /\ evalPc = "idle"
    /\ last' = [api |-> api, typ |-> <<>>, user |-> caller.user,
                key |-> "", evaluated |-> FALSE, obs |-> <<storagePtr>>,
                res |-> IF storagePtr = 0 THEN NoBytes
                        ELSE IF api = "GetABSpecs"
                        THEN GetABSpecs(heap[storagePtr])
                        ELSE GetStorageSnapshot(heap[storagePtr]),
                err |-> IF storagePtr = 0 /\ api = "GetStorageSnapshot"
                        THEN "ErrABNotReady" ELSE NoErr,
                ret |-> RetOf(FALSE, EmptyResult, NoErr), impress |-> FALSE]
    /\ UNCHANGED <<heap, storagePtr, loadPc, loadOutcome, stickyMode,
                   stickyData, evalPc, evalReq, evalObs, caller>>
    /\ UNCHANGED pipeVars

InitReaders ==
    /\ InitCore
    /\ stickyMode = "mem"
    /\ caller.key \in ShutKeys

NextReaders ==
    \/ \E typ \in TypArgs : EvalBegin("Evaluate", typ)
    \/ EvalLoad
    \/ EvalFinish
    \/ \E api \in ExportApis : ExportCall(api)
    \/ \E resp \in Responses : loadRemoteMeta(resp)

\* An ABCore whose callers evaluate and export while the loader installs
\* snapshots.
SpecReaders == InitReaders /\ [][NextReaders]_vars

====
